---- MODULE Spec2Model ----
(***************************************************************************)
(* A model of the tender search and project economics code of craft_PGZ.   *)
(*                                                                         *)
(* These specifications share the module:                                  *)
(*   SpecParse   _parse_real_search_results (with the card and field       *)
(*               extractors) applied to a bounded set of result pages;     *)
(*   SpecSearch  SearchService.search_tenders over HttpTenderParser, its   *)
(*               retry decorator and SimpleCache;                          *)
(*   SpecEcon    TeamRole and ProjectConfig construction followed by       *)
(*               EconomicsService.calculate_project_economics;             *)
(*   SpecText    _parse_real_price and _parse_real_date applied to texts;  *)
(*   SpecRetry   SearchService.search_with_auto_retry over search_tenders; *)
(*   FairSpecRetry  SpecRetry with weak fairness of the steps of a call;   *)
(*   SpecDetails SearchService.get_tender_details over                     *)
(*               parse_tender_details and MemoryTenderRepository;          *)
(*   SpecCache   the operations of SimpleCache under a clock;              *)
(*   SpecKey     SearchService._get_cache_key on pairs of criteria;        *)
(*   SpecInjected  search_tenders over a parser that returns any list of   *)
(*               raw records;                                              *)
(*   SpecDashboard  the dashboard from a real search to the amounts of     *)
(*               the economics calculation;                                *)
(*   SpecSessions  the HTTP sessions of the parser shared by the calls of  *)
(*               one SearchService.                                        *)
(*                                                                         *)
(* Texts are ASCII: the Cyrillic keywords of the source are written in     *)
(* transliteration and the numero sign as "#".                             *)
(***************************************************************************)
EXTENDS Integers, Sequences, FiniteSets, TLC

VARIABLES
    \* ---- page parser (SpecParse) ----
    html,          \* the page handed to _parse_real_search_results
    cwdWritable,   \* whether debug_search_results.html can be opened for writing
    parsePc,       \* "ready" before the call, "done" after it
    parseOut,      \* outcome of the call: Return(list) or Raise(exception)
    debugDump,     \* content of debug_search_results.html (None: not written)
    \* ---- search (SpecSearch) ----
    now,           \* the clock, in seconds
    cache,         \* SimpleCache._cache: key -> <<>> or <<[value, expiry]>>
    svcPc,         \* position of the SearchService.search_tenders call
    svcArgs,       \* its arguments [use_cache, limit]
    session,       \* HttpTenderParser.session: "none", "open" or "closed"
    attempt,       \* attempt number of the retry decorator of search_tenders
    lastResponse,  \* kind of the answer to the latest search GET of the call
    searchGets,    \* search GETs issued by the call
    homeGets,      \* warm-up GETs issued by the call
    results,       \* results[:limit] of the parser, while being enriched
    enhanced,      \* enhanced_results
    svcOut,        \* what the call gave its caller: Return(list) or Raise(exc)
    \* ---- economics (SpecEcon) ----
    team,          \* the TeamRole objects constructed so far, in dict order
    config,        \* <<>> or <<the ProjectConfig constructed>>
    econPc,        \* "team", "roles", "configured" or "done"
    ctorError,     \* <<>> or <<the exception the latest constructor call raised>>
    tenderAmount,  \* <<>> or <<the tender amount the economics were calculated for>>
    econOut,       \* outcome of calculate_project_economics
    \* ---- text parsers (SpecText) ----
    textCall,      \* <<>> or <<[fn, arg]>>: the parser called and the text given
    textOut,       \* what that call returned
    \* ---- search with retries (SpecRetry) ----
    retryPc,       \* position of the search_with_auto_retry call
    retryArgs,     \* its arguments [limit, max_attempts]
    retryAttempt,  \* the loop variable attempt, counted from 0
    retryOutcomes, \* what search_tenders gave at each attempt so far
    retrySlept,    \* the delays slept so far, in seconds
    retryGets,     \* history: the [search, home] GETs of each attempt so far
    retryOut,      \* what the call gave its caller
    \* ---- tender details (SpecDetails) ----
    repository,    \* MemoryTenderRepository._tenders: number -> <<>> or <<Tender>>
    detPc,         \* position of the SearchService.get_tender_details call
    detArgs,       \* its arguments [reg_number, force_refresh]
    detAttempt,    \* attempt number of the retry decorator of parse_tender_details
    detRequests,   \* the GETs of the running parse_tender_details: [url, session]
    detResponses,  \* what each of them was answered with
    detailsOut,    \* what parse_tender_details returned
    detOut,        \* what get_tender_details gave its caller
    \* ---- cache operations (SpecCache) ----
    cacheCall,     \* <<>> or <<the latest operation on the cache and its arguments>>
    cacheOut,      \* what the latest get returned: <<>> (None) or <<value>>
    lastSet,       \* history: per key, <<>> or <<[value, at, ttl] of the set in force>>
    \* ---- cache keys (SpecKey) ----
    keyCall,       \* <<>> or <<the two SearchCriteria whose keys were asked for>>
    keyOut,        \* <<>> or <<[data, key] of _get_cache_key for each of them>>
    \* ---- dashboard (SpecDashboard) ----
    rawShown,      \* history: the raw records behind the search results shown
    searchResults, \* st.session_state.search_results: a list of dicts
    selectedTenders, \* st.session_state.selected_tenders
    econInput,     \* <<>> or <<[reg_number, tender_amount, total_amount]>> of the latest
                   \* calculation started from the dashboard
    \* ---- HTTP sessions of the shared parser (SpecSessions) ----
    serialized,    \* TRUE when the calls on the service never overlap
    sessions,      \* every aiohttp.ClientSession created: [opened_by, state, closed_by]
    parserSession, \* parser.session: 0 for None, else an index into sessions
    calls,         \* per caller: [pc, kind, session, requests, outcome]
    lastRequest    \* <<>> or <<[caller, session, state]>> of the latest GET issued

parseVars == <<html, cwdWritable, parsePc, parseOut, debugDump>>
searchVars == <<now, cache, svcPc, svcArgs, session, attempt, lastResponse,
                searchGets, homeGets, results, enhanced, svcOut>>
econVars == <<team, config, econPc, ctorError, tenderAmount, econOut>>
textVars == <<textCall, textOut>>
retryVars == <<retryPc, retryArgs, retryAttempt, retryOutcomes, retrySlept, retryGets,
               retryOut>>
detailVars == <<repository, detPc, detArgs, detAttempt, detRequests, detResponses,
                detailsOut, detOut>>
cacheVars == <<cacheCall, cacheOut, lastSet>>
keyVars == <<keyCall, keyOut>>
dashVars == <<rawShown, searchResults, selectedTenders, econInput>>
sessVars == <<serialized, sessions, parserSession, calls, lastRequest>>
moreVars == <<cacheVars, keyVars, dashVars, sessVars>>
vars == <<parseVars, searchVars, econVars, textVars, retryVars, detailVars, moreVars>>

\* Python's None, where a string or an outcome is expected.  An optional
\* value is otherwise <<>> (None) or <<x>>.
None == "None"

Return(v) == [kind |-> "return", value |-> v]
Raise(e) == [kind |-> "raise", value |-> e]

(***************************************************************************)
(* Strings.  Texts are TLA+ strings; a character is a string of length 1.  *)
(***************************************************************************)
Digits == {"0", "1", "2", "3", "4", "5", "6", "7", "8", "9"}

CharAt(s, i) == SubSeq(s, i, i)

Min(a, b) == IF a <= b THEN a ELSE b

\* The least element of a non-empty set of numbers.
MinOf(S) == CHOOSE x \in S : \A y \in S : x <= y

\* The concatenation of pieces[lo..hi] (by halves, to keep the recursion
\* shallow).
RECURSIVE Concat(_, _, _)
Concat(pieces, lo, hi) ==
    IF lo > hi THEN ""
    ELSE IF lo = hi THEN pieces[lo]
    ELSE Concat(pieces, lo, (lo + hi) \div 2) \o Concat(pieces, (lo + hi) \div 2 + 1, hi)

\* s with every character of from replaced by the character of to at the
\* same position: str.lower(), str.upper(), str.replace(',', '.').
Translate(s, from, to) ==
    Concat([i \in 1..Len(s) |->
               IF \E k \in 1..Len(from) : CharAt(from, k) = CharAt(s, i)
               THEN CharAt(to, CHOOSE k \in 1..Len(from) : CharAt(from, k) = CharAt(s, i))
               ELSE CharAt(s, i)],
           1, Len(s))

Lower(s) == Translate(s, "ABCDEFGHIJKLMNOPQRSTUVWXYZ", "abcdefghijklmnopqrstuvwxyz")
Upper(s) == Translate(s, "abcdefghijklmnopqrstuvwxyz", "ABCDEFGHIJKLMNOPQRSTUVWXYZ")

\* re.sub over a character class: s without the characters of cs, and s with
\* only the characters of cs.
Without(s, cs) ==
    Concat([i \in 1..Len(s) |-> IF CharAt(s, i) \in cs THEN "" ELSE CharAt(s, i)],
           1, Len(s))

Only(s, cs) ==
    Concat([i \in 1..Len(s) |-> IF CharAt(s, i) \in cs THEN CharAt(s, i) ELSE ""],
           1, Len(s))

\* re.sub(r'\s+', ' ', s): every run of blanks becomes one blank.
CollapseSpaces(s) ==
    Concat([i \in 1..Len(s) |->
               IF CharAt(s, i) = " " /\ i < Len(s) /\ CharAt(s, i + 1) = " "
               THEN "" ELSE CharAt(s, i)],
           1, Len(s))

\* str.strip() for the whitespace that the modelled texts contain.
RECURSIVE Strip(_)
Strip(s) ==
    IF Len(s) = 0 THEN ""
    ELSE IF CharAt(s, 1) = " " THEN Strip(SubSeq(s, 2, Len(s)))
    ELSE IF CharAt(s, Len(s)) = " " THEN Strip(SubSeq(s, 1, Len(s) - 1))
    ELSE s

\* Length of the run of digits that starts at position i of s.
RECURSIVE DigitRun(_, _)
DigitRun(s, i) ==
    IF i > Len(s) \/ CharAt(s, i) \notin Digits THEN 0
    ELSE 1 + DigitRun(s, i + 1)

\* "sub in s"
Contains(s, sub) ==
    \E i \in 1..(Len(s) - Len(sub) + 1) : SubSeq(s, i, i + Len(sub) - 1) = sub

\* re.sub(r'<[^>]+>', '', s): remove every tag (at least one character
\* between the brackets).
RECURSIVE RemoveTags(_)
RemoveTags(s) ==
    LET close(i) == {j \in i..Len(s) : CharAt(s, j) = ">"}
        opens == {j \in 1..(Len(s) - 1) :
                     CharAt(s, j) = "<" /\ CharAt(s, j + 1) # ">" /\ close(j + 2) # {}}
    IN  IF opens = {} THEN s
        ELSE SubSeq(s, 1, MinOf(opens) - 1)
             \o RemoveTags(SubSeq(s, MinOf(close(MinOf(opens) + 2)) + 1, Len(s)))

(***************************************************************************)
(* Loops that return at the first success.                                 *)
(***************************************************************************)
\* first if it is something, else rest.
OrElse(first, rest) == IF first # <<>> THEN first ELSE rest

\* opt's value, default when opt is nothing.
ValueOr(opt, default) == IF opt = <<>> THEN default ELSE opt[1]

\* "for x in seq: ... return v": what Accept gives for the first element of
\* seq for which it gives something, nothing if there is none.
FirstAccepted(seq, Accept(_)) ==
    LET RECURSIVE From(_)
        From(i) == IF i > Len(seq) THEN <<>> ELSE OrElse(Accept(seq[i]), From(i + 1))
    IN  From(1)

(***************************************************************************)
(* Markup.  A result card is the sequence of its elements in document      *)
(* order; an element carries the CSS selectors it matches, the attributes  *)
(* the extractors read and its own text.                                   *)
(***************************************************************************)
Elem(sel, text) ==
    [sel |-> sel, text |-> text, data_number |-> "", title |-> "", href |-> ""]

\* card.get_text(): the element texts in document order (layout whitespace
\* between elements is a single blank).
RECURSIVE GetText(_)
GetText(card) ==
    IF card = <<>> THEN ""
    ELSE Head(card).text \o " " \o GetText(Tail(card))

\* elem.get_text(strip=True)
ElemText(elem) == Strip(elem.text)

\* card.select_one(selector): the first element in document order that
\* matches.
RECURSIVE SelectOne(_, _)
SelectOne(card, selector) ==
    IF card = <<>> THEN <<>>
    ELSE IF selector \in Head(card).sel THEN <<Head(card)>>
    ELSE SelectOne(Tail(card), selector)

\* "for selector in selectors: elem = card.select_one(selector); if elem:
\* ... return": the first thing Accept gives for a selected element.
FirstBySelector(card, selectors, Accept(_)) ==
    LET OfSelector(selector) ==
            IF SelectOne(card, selector) = <<>> THEN <<>>
            ELSE Accept(SelectOne(card, selector)[1])
    IN  FirstAccepted(selectors, OfSelector)

(***************************************************************************)
(* Field extractors of a search-result card.                               *)
(***************************************************************************)
MinRegDigits == 19
TitleMinLen == 10
TitleMaxLen == 500
CustomerMinLen == 3
CustomerMaxLen == 300
PriceSanityLimit == 1000000000
MinReasonablePrice == 1000

\* re.search(r'#?\s*(\d{19,})', s): the first maximal run of at least 19
\* digits.
FirstLongRun(s) ==
    LET starts == {i \in 1..Len(s) :
                      /\ i = 1 \/ CharAt(s, i - 1) \notin Digits
                      /\ DigitRun(s, i) >= MinRegDigits}
    IN  IF starts = {} THEN <<>>
        ELSE <<SubSeq(s, MinOf(starts), MinOf(starts) + DigitRun(s, MinOf(starts)) - 1)>>

\* The number an element gives: its data-number attribute, else its text
\* without "#" and blanks if that starts with at least 19 digits.
RegOfElement(elem) ==
    IF Strip(elem.data_number) # "" THEN <<Strip(elem.data_number)>>
    ELSE IF DigitRun(Without(ElemText(elem), {"#", " "}), 1) >= MinRegDigits
    THEN <<Without(ElemText(elem), {"#", " "})>>
    ELSE <<>>

ExtractRealRegNumber(card) ==
    OrElse(FirstBySelector(card,
                           << ".registry-entry__header-mid__number",
                              ".registry-entry__body-number", "span[class*=number]",
                              "div[class*=number]", "[data-number]", ".number" >>,
                           RegOfElement),
           FirstLongRun(GetText(card)))

CleanTitle(title) ==
    IF title = "" THEN ""
    ELSE SubSeq(RemoveTags(CollapseSpaces(Strip(title))), 1,
                Min(TitleMaxLen, Len(RemoveTags(CollapseSpaces(Strip(title))))))

\* The title an element gives: its title attribute, else its text, if longer
\* than 10 characters.
TitleOfElement(elem) ==
    IF Len(Strip(elem.title)) > TitleMinLen THEN <<CleanTitle(Strip(elem.title))>>
    ELSE IF Len(ElemText(elem)) > TitleMinLen THEN <<CleanTitle(ElemText(elem))>>
    ELSE <<>>

ExtractRealTitle(card) ==
    FirstBySelector(card,
                    << ".registry-entry__body-value a", ".registry-entry__body-value",
                       "a[href*=common-info]", "a[title]", ".registry-entry__body .d-block",
                       ".entry-title", "h3 a", "h4 a" >>,
                    TitleOfElement)

\* "for prefix in prefixes_to_remove: if cleaned.lower().startswith(prefix):
\* cleaned = cleaned[len(prefix):].strip()"
RECURSIVE RemovePrefixes(_, _)
RemovePrefixes(cleaned, prefixes) ==
    IF prefixes = <<>> THEN cleaned
    ELSE IF /\ Len(cleaned) >= Len(Head(prefixes))
            /\ Lower(SubSeq(cleaned, 1, Len(Head(prefixes)))) = Head(prefixes)
         THEN RemovePrefixes(Strip(SubSeq(cleaned, Len(Head(prefixes)) + 1, Len(cleaned))),
                             Tail(prefixes))
         ELSE RemovePrefixes(cleaned, Tail(prefixes))

CleanCustomerName(customer) ==
    IF customer = "" THEN ""
    ELSE SubSeq(RemovePrefixes(CollapseSpaces(Strip(customer)),
                               << "zakazchik:", "organizatsiya:", "pokupatel:",
                                  "customer:", "organization:" >>),
                1,
                Min(CustomerMaxLen,
                    Len(RemovePrefixes(CollapseSpaces(Strip(customer)),
                                       << "zakazchik:", "organizatsiya:", "pokupatel:",
                                          "customer:", "organization:" >>))))

CustomerOfElement(elem) ==
    IF Len(ElemText(elem)) > CustomerMinLen THEN <<CleanCustomerName(ElemText(elem))>>
    ELSE <<>>

ExtractRealCustomer(card) ==
    FirstBySelector(card,
                    << ".registry-entry__body-href", ".purchaser", "a[href*=purchaser]",
                       ".customer", ".registry-entry__body .text-truncate",
                       ".organization" >>,
                    CustomerOfElement)

BaseUrl == "https://zakupki.gov.ru"

\* urljoin(base_url, href) for the two shapes of href the cards carry: an
\* absolute URL is kept, a path is appended to the portal's origin.
UrlOfElement(elem) ==
    IF elem.href = "" THEN <<>>
    ELSE IF Len(elem.href) >= 4 /\ SubSeq(elem.href, 1, 4) = "http" THEN <<elem.href>>
    ELSE <<BaseUrl \o elem.href>>

ExtractRealUrl(card, reg_number) ==
    ValueOr(FirstBySelector(card,
                            << "a[href*=common-info]", "a[href*=view]",
                               ".registry-entry__body-value a" >>,
                            UrlOfElement),
            IF reg_number # ""
            THEN BaseUrl \o "/epz/order/notice/ea44/view/common-info.html?regNumber="
                         \o reg_number
            ELSE BaseUrl \o "/epz/order/extendedsearch/results.html")

\* The law named in the card's text, upper-cased.
TenderTypeOf(card_text) ==
    IF Contains(card_text, "44-F3") \/ Contains(card_text, "44-FZ") THEN "44-fz"
    ELSE IF Contains(card_text, "223-F3") \/ Contains(card_text, "223-FZ") THEN "223-fz"
    ELSE IF Contains(card_text, "KOMMERCHESK") THEN "commercial"
    ELSE "unknown"

DetermineRealTenderType(card) == TenderTypeOf(Upper(GetText(card)))

\* The status named in the card's text, lower-cased.
StatusOf(card_text) ==
    LET any(words) == \E w \in words : Contains(card_text, w)
    IN  IF any({"zavershen", "completed", "okonchen"}) THEN "completed"
        ELSE IF any({"otmenen", "cancelled", "annulirovan"}) THEN "cancelled"
        ELSE IF any({"chernovik", "draft", "proekt"}) THEN "draft"
        ELSE "active"

DetermineRealStatus(card) == StatusOf(Lower(GetText(card)))

(***************************************************************************)
(* Prices.  The float a price text denotes is kept as its decimal value    *)
(* [int, frac]: the integer part and the digits after the point (without   *)
(* trailing zeros).                                                        *)
(***************************************************************************)
RECURSIVE ToInt(_)
ToInt(s) ==
    IF Len(s) = 0 THEN 0
    ELSE ToInt(SubSeq(s, 1, Len(s) - 1)) * 10
         + (CHOOSE d \in 0..9 : CharAt("0123456789", d + 1) = CharAt(s, Len(s)))

Num(int, frac) ==
    [int |-> int,
     frac |-> IF \A i \in 1..Len(frac) : CharAt(frac, i) = "0" THEN ""
              ELSE SubSeq(frac, 1, CHOOSE i \in 1..Len(frac) :
                                       /\ CharAt(frac, i) # "0"
                                       /\ \A j \in (i + 1)..Len(frac) : CharAt(frac, j) = "0")]

\* a > b
NumGreater(a, b) ==
    \/ a.int > b.int
    \/ /\ a.int = b.int
       /\ ToInt(SubSeq(a.frac \o "000000000", 1, 9)) > ToInt(SubSeq(b.frac \o "000000000", 1, 9))

\* max(prices)
RECURSIVE NumMax(_)
NumMax(nums) ==
    IF Len(nums) = 1 THEN nums[1]
    ELSE IF NumGreater(NumMax(Tail(nums)), nums[1]) THEN NumMax(Tail(nums)) ELSE nums[1]

\* First position at or after i where a digit stands, 0 if none.
FirstDigit(s, i) ==
    IF \E j \in i..Len(s) : CharAt(s, j) \in Digits
    THEN MinOf({j \in i..Len(s) : CharAt(s, j) \in Digits})
    ELSE 0

\* re.findall(r'\d+(?:\.\d+)?', s) from position i on, each match as the
\* float it denotes.
RECURSIVE FindNumbers(_, _)
FindNumbers(s, i) ==
    IF FirstDigit(s, i) = 0 THEN <<>>
    ELSE LET d == FirstDigit(s, i)
             n == DigitRun(s, d)
             m == IF d + n <= Len(s) /\ CharAt(s, d + n) = "."
                  THEN DigitRun(s, d + n + 1) ELSE 0
         IN  IF m > 0
             THEN <<Num(ToInt(SubSeq(s, d, d + n - 1)), SubSeq(s, d + n + 1, d + n + m))>>
                  \o FindNumbers(s, d + n + 1 + m)
             ELSE <<Num(ToInt(SubSeq(s, d, d + n - 1)), "")>> \o FindNumbers(s, d + n)

\* A maximum above the sanity limit is taken to be in kopecks: x / 100.
ScalePrice(max_price) ==
    IF NumGreater(max_price, Num(PriceSanityLimit, ""))
    THEN Num(max_price.int \div 100,
             CharAt("0123456789", ((max_price.int % 100) \div 10) + 1)
             \o CharAt("0123456789", (max_price.int % 10) + 1) \o max_price.frac)
    ELSE max_price

\* The price were the first number found, not the largest.
PriceOfFirstNumber(numbers) ==
    IF numbers # <<>> THEN ScalePrice(numbers[1]) ELSE Num(0, "")

PriceOfNumbers(numbers) ==
    IF numbers # <<>> THEN ScalePrice(NumMax(numbers)) ELSE Num(0, "")

\* \s of a regular expression: the blank, and the tab that stands here for every
\* other whitespace character (no-break space, line feed).
Whitespace == {" ", "\t"}

\* The text after "re.sub(r'[^\d\s,.]', '', price_text)" and
\* ".replace(',', '.').replace(' ', '')": only the blank is removed, other
\* whitespace stays.
CleanPriceText(price_text) ==
    Without(Translate(Only(price_text, Digits \cup Whitespace \cup {",", "."}), ",", "."),
            {" "})

ParseRealPrice(price_text) ==
    IF price_text = "" THEN Num(0, "")
    ELSE PriceOfNumbers(FindNumbers(CleanPriceText(price_text), 1))

\* price if it is greater than floor, else nothing.
Above(price, floor) == IF NumGreater(price, Num(floor, "")) THEN <<price>> ELSE <<>>

PositivePriceOfElement(elem) == Above(ParseRealPrice(ElemText(elem)), 0)

ReasonablePriceOfMatch(match) == Above(ParseRealPrice(match), MinReasonablePrice)

\* End of the longest run of [\d\s,] characters that starts at position i.
RECURSIVE PriceRunEnd(_, _)
PriceRunEnd(s, i) ==
    IF i <= Len(s) /\ CharAt(s, i) \in Digits \cup {" ", ","}
    THEN PriceRunEnd(s, i + 1)
    ELSE i - 1

\* End of a match of r'\d[\d\s,]*(?:\.\d+)?' whose [\d\s,] run ends at e.
PriceMatchEnd(s, e) ==
    IF e + 1 <= Len(s) /\ CharAt(s, e + 1) = "." /\ DigitRun(s, e + 2) > 0
    THEN e + 1 + DigitRun(s, e + 2)
    ELSE e

\* re.findall(r'(?:tsena|stoimost|summa).*?(\d[\d\s,]*(?:\.\d+)?)', s) from
\* position i on: the captured number texts, left to right, matches not
\* overlapping.
RECURSIVE PriceMatches(_, _)
PriceMatches(s, i) ==
    LET after(j) == {j + Len(w) : w \in {k \in {"tsena", "stoimost", "summa"} :
                                            /\ j + Len(k) - 1 <= Len(s)
                                            /\ SubSeq(s, j, j + Len(k) - 1) = k}}
        starts == {j \in i..Len(s) : \E a \in after(j) : FirstDigit(s, a) # 0}
        d == FirstDigit(s, MinOf(after(MinOf(starts))))
    IN  IF starts = {} THEN <<>>
        ELSE <<SubSeq(s, d, PriceMatchEnd(s, PriceRunEnd(s, d)))>>
             \o PriceMatches(s, PriceMatchEnd(s, PriceRunEnd(s, d)) + 1)

ExtractRealPrice(card) ==
    ValueOr(OrElse(FirstBySelector(card,
                                   << ".price-block__value", ".cost .currency", ".price",
                                      "span[class*=price]", ".amount" >>,
                                   PositivePriceOfElement),
                   FirstAccepted(PriceMatches(Lower(GetText(card)), 1),
                                 ReasonablePriceOfMatch)),
            Num(0, ""))

(***************************************************************************)
(* Dates.  A small backtracking matcher for the regular expressions and    *)
(* strptime formats of the date code.  A pattern is a string with one      *)
(* character per token:                                                    *)
(*   "1" \d{1,2}   "2" \d{2}   "4" \d{4}   " " \s+   "_" \s*               *)
(*   "D" %d   "N" %m   "Y" %Y   "H" %H   "M" %M                            *)
(* and any other character standing for itself.  A digit token is greedy,  *)
(* between lo and hi digits, of value in vmin..vmax.                       *)
(***************************************************************************)
TokenOf(c) ==
    CASE c = "1" -> [k |-> "d", lo |-> 1, hi |-> 2, vmin |-> 0, vmax |-> 99]
      [] c = "2" -> [k |-> "d", lo |-> 2, hi |-> 2, vmin |-> 0, vmax |-> 99]
      [] c = "4" -> [k |-> "d", lo |-> 4, hi |-> 4, vmin |-> 0, vmax |-> 9999]
      [] c = "D" -> [k |-> "d", lo |-> 1, hi |-> 2, vmin |-> 1, vmax |-> 31]
      [] c = "N" -> [k |-> "d", lo |-> 1, hi |-> 2, vmin |-> 1, vmax |-> 12]
      [] c = "Y" -> [k |-> "d", lo |-> 4, hi |-> 4, vmin |-> 1, vmax |-> 9999]
      [] c = "H" -> [k |-> "d", lo |-> 1, hi |-> 2, vmin |-> 0, vmax |-> 23]
      [] c = "M" -> [k |-> "d", lo |-> 1, hi |-> 2, vmin |-> 0, vmax |-> 59]
      [] c = " " -> [k |-> "s", lo |-> 1, hi |-> 0, vmin |-> 0, vmax |-> 0]
      [] c = "_" -> [k |-> "s", lo |-> 0, hi |-> 0, vmin |-> 0, vmax |-> 0]
      [] OTHER -> [k |-> "c", lo |-> 0, hi |-> 0, vmin |-> 0, vmax |-> 0]

RECURSIVE BlankRun(_, _)
BlankRun(s, i) ==
    IF i > Len(s) \/ CharAt(s, i) # " " THEN 0 ELSE 1 + BlankRun(s, i + 1)

\* Match pattern[j..] at position i of s: <<>> on failure, else
\* <<[groups, end]>> with the digit groups in order and the position of the
\* last matched character.
RECURSIVE MatchFrom(_, _, _, _, _)
RECURSIVE TryDigits(_, _, _, _, _, _)
MatchFrom(s, i, pattern, j, groups) ==
    IF j > Len(pattern) THEN <<[groups |-> groups, end |-> i - 1]>>
    ELSE CASE TokenOf(CharAt(pattern, j)).k = "d" ->
                TryDigits(s, i, pattern, j, groups,
                          Min(DigitRun(s, i), TokenOf(CharAt(pattern, j)).hi))
           [] TokenOf(CharAt(pattern, j)).k = "c" ->
                IF i <= Len(s) /\ CharAt(s, i) = CharAt(pattern, j)
                THEN MatchFrom(s, i + 1, pattern, j + 1, groups)
                ELSE <<>>
           [] TokenOf(CharAt(pattern, j)).k = "s" ->
                IF BlankRun(s, i) >= TokenOf(CharAt(pattern, j)).lo
                THEN MatchFrom(s, i + BlankRun(s, i), pattern, j + 1, groups)
                ELSE <<>>

TryDigits(s, i, pattern, j, groups, n) ==
    IF n < TokenOf(CharAt(pattern, j)).lo \/ n = 0 THEN <<>>
    ELSE OrElse(IF /\ ToInt(SubSeq(s, i, i + n - 1)) >= TokenOf(CharAt(pattern, j)).vmin
                   /\ ToInt(SubSeq(s, i, i + n - 1)) <= TokenOf(CharAt(pattern, j)).vmax
                THEN MatchFrom(s, i + n, pattern, j + 1,
                               Append(groups, SubSeq(s, i, i + n - 1)))
                ELSE <<>>,
                TryDigits(s, i, pattern, j, groups, n - 1))

\* re.search of a pattern given by its alternatives, in the order the
\* regular expression tries them: at the leftmost position where one of them
\* matches, the groups of the first that does.
SearchAlternatives(s, alts) ==
    LET hits(i) == {a \in 1..Len(alts) : MatchFrom(s, i, alts[a], 1, <<>>) # <<>>}
        at == {i \in 1..Len(s) : hits(i) # {}}
    IN  IF at = {} THEN <<>>
        ELSE <<MatchFrom(s, MinOf(at), alts[MinOf(hits(MinOf(at)))], 1, <<>>)[1].groups>>

DaysInMonth(y, m) ==
    IF m = 2 THEN (IF (y % 4 = 0 /\ y % 100 # 0) \/ y % 400 = 0 THEN 29 ELSE 28)
    ELSE IF m \in {4, 6, 9, 11} THEN 30 ELSE 31

\* The datetime of the groups r matched by format fmt: a field the format
\* lacks is 0, and the day must exist in its month.
DateOfFields(fmt, groups) ==
    LET field(f) ==
            IF Contains(fmt, f)
            THEN ToInt(groups[Cardinality({j \in 1..(CHOOSE p \in 1..Len(fmt) : CharAt(fmt, p) = f) :
                                              CharAt(fmt, j) \in {"D", "N", "Y", "H", "M"}})])
            ELSE 0
    IN  IF field("D") > DaysInMonth(field("Y"), field("N")) THEN <<>>
        ELSE <<[year |-> field("Y"), month |-> field("N"), day |-> field("D"),
                hour |-> field("H"), minute |-> field("M")]>>

\* The format must match the whole string.
StrptimeOf(date_string, fmt, r) ==
    IF r = <<>> THEN <<>>
    ELSE IF r[1].end # Len(date_string) THEN <<>>
    ELSE DateOfFields(fmt, r[1].groups)

\* datetime.strptime(date_string, format): <<>> stands for ValueError.
Strptime(date_string, fmt) ==
    StrptimeOf(date_string, fmt, MatchFrom(date_string, 1, fmt, 1, <<>>))

\* The six (pattern, format) pairs of _parse_real_date, in their order.
DatePatterns ==
    << [re |-> "1.1.4 1:2", fmt |-> "D.N.Y H:M"], [re |-> "1.1.4", fmt |-> "D.N.Y"],
       [re |-> "1/1/4 1:2", fmt |-> "D/N/Y H:M"], [re |-> "1/1/4", fmt |-> "D/N/Y"],
       [re |-> "4-1-1 1:2", fmt |-> "Y-N-D H:M"], [re |-> "4-1-1", fmt |-> "Y-N-D"] >>

\* The date of a match m of pattern p.  The string handed to strptime is
\* rebuilt from the groups, always with points between the first three; a
\* ValueError moves on to the next pattern.
DateOfMatch(p, m) ==
    IF m = <<>> THEN <<>>
    ELSE Strptime(m[1][1] \o "." \o m[1][2] \o "." \o m[1][3]
                  \o (IF Len(m[1]) = 5 THEN " " \o m[1][4] \o ":" \o m[1][5] ELSE ""),
                  p.fmt)

\* _parse_real_date: <<>> is None, <<d>> the datetime d.
ParseRealDate(date_text) ==
    LET OfPattern(p) == DateOfMatch(p, SearchAlternatives(date_text, <<p.re>>))
    IN  IF date_text = "" THEN <<>> ELSE FirstAccepted(DatePatterns, OfPattern)

DateOfElement(elem) == ParseRealDate(ElemText(elem))

\* The full-text deadline patterns; "do" transliterates the Cyrillic word of
\* the first one, whose time group is optional.
DeadlineTextPatterns ==
    << [alts |-> <<"do 1.1.4_1:2", "do 1.1.4">>, sep |-> "."],
       [alts |-> <<"1.1.4 1:2">>, sep |-> "."],
       [alts |-> <<"1/1/4 1:2">>, sep |-> "/"] >>

\* The deadline of a full-text match m of pattern p; a date without a time
\* is given 23:59.
DeadlineOfMatch(p, m) ==
    IF m = <<>> THEN <<>>
    ELSE Strptime(m[1][1] \o p.sep \o m[1][2] \o p.sep \o m[1][3] \o " "
                  \o (IF Len(m[1]) = 5 THEN m[1][4] \o ":" \o m[1][5] ELSE "23:59"),
                  "D" \o p.sep \o "N" \o p.sep \o "Y H:M")

ExtractRealDeadline(card) ==
    LET OfPattern(p) == DeadlineOfMatch(p, SearchAlternatives(GetText(card), p.alts))
    IN  OrElse(FirstBySelector(card,
                               << ".deadline", ".date", ".data-block__value",
                                  "[class*=date]" >>,
                               DateOfElement),
               FirstAccepted(DeadlineTextPatterns, OfPattern))

(***************************************************************************)
(* Page parser.                                                            *)
(***************************************************************************)
\* The record of a card.  title and customer are options (<<>> is None).
\* The timestamp parsed_at is left out.
TenderData(card, reg_number, title, customer) ==
    [reg_number |-> reg_number,
     title |-> IF title = <<>> \/ title[1] = "" THEN "Tender # " \o reg_number
               ELSE title[1],
     customer |-> IF customer = <<>> \/ customer[1] = "" THEN "Customer not specified"
                  ELSE customer[1],
     initial_price |-> ExtractRealPrice(card),
     source_url |-> ExtractRealUrl(card, reg_number),
     tender_type |-> DetermineRealTenderType(card),
     status |-> DetermineRealStatus(card),
     deadline |-> ExtractRealDeadline(card),
     data_source |-> "zakupki.gov.ru"]

\* The try block once number, title and customer are extracted.  The closing
\* debug message slices the extracted title, which raises TypeError when the
\* title is None.
CardOutcome(card, reg_number, title, customer) ==
    IF reg_number = <<>> \/ reg_number[1] = "" THEN Return(<<>>)
    ELSE IF title = <<>> THEN Raise("TypeError")
    ELSE Return(<<TenderData(card, reg_number[1], title, customer)>>)

\* The except clause: any exception of the body yields None.
NoneOnException(r) == IF r.kind = "raise" THEN <<>> ELSE r.value

\* _parse_real_tender_card: <<>> (None) or <<record>>.
ParseRealTenderCard(card) ==
    NoneOnException(CardOutcome(card, ExtractRealRegNumber(card), ExtractRealTitle(card),
                                ExtractRealCustomer(card)))

\* The loop over the cards: a card whose result is None is skipped.
RECURSIVE ParseCards(_)
ParseCards(tender_cards) ==
    IF tender_cards = <<>> THEN <<>>
    ELSE ParseRealTenderCard(Head(tender_cards)) \o ParseCards(Tail(tender_cards))

\* x if it is something (a found container, a non-empty list of cards).
Found(x) == x

\* A page is [text, containers]: the raw text and, for each entry of
\* containers_to_try in order, the container soup.find returns (<<>> when
\* absent).  A container gives, for each entry of selectors_to_try in
\* order, the cards that selector matches.
TenderCards(page) ==
    IF FirstAccepted(page.containers, Found) = <<>> THEN <<>>
    ELSE FirstAccepted(FirstAccepted(page.containers, Found)[1].items, Found)

\* _parse_real_search_results: the outcome of the call and the content
\* written to debug_search_results.html (None: nothing written).  Without a
\* container the raw page is written to the debug file, outside any try
\* block, so a file that cannot be opened raises; then the list is empty.
ParseRealSearchResults(page, writable) ==
    IF FirstAccepted(page.containers, Found) = <<>>
    THEN IF writable THEN [out |-> Return(<<>>), dump |-> page.text]
         ELSE [out |-> Raise("OSError"), dump |-> None]
    ELSE [out |-> Return(ParseCards(TenderCards(page))), dump |-> None]

(***************************************************************************)
(* Bounded inputs of the page parser.                                      *)
(***************************************************************************)
MaxCards == 4

RegA == "0373100000125000011"
RegB == "0848300062225000427"

\* The ways a card can carry (or lack) each field: number, title, customer,
\* price and deadline.
FieldMarkup(reg) ==
    << { <<>>,
         <<Elem({".registry-entry__header-mid__number", "div[class*=number]"}, "# " \o reg)>>,
         <<[Elem({"[data-number]"}, "") EXCEPT !.data_number = reg]>>,
         <<Elem({".number", "span[class*=number]"}, "# 12345")>>,
         <<Elem({}, "Zakupka " \o reg \o " 44-FZ")>> },
       { <<>>,
         <<Elem({".registry-entry__body-value"}, "Supply of  office <b>furniture</b>")>>,
         <<[Elem({"a[href*=common-info]", ".registry-entry__body-value a"}, "more")
               EXCEPT !.title = "Office furniture supply",
                      !.href = "/epz/order/notice/ea44/view/common-info.html"]>>,
         <<Elem({".entry-title"}, "Chairs")>> },
       { <<>>, <<Elem({".registry-entry__body-href"}, "Customer: City Hospital 5")>> },
       { <<>>,
         <<Elem({".price-block__value"}, "1 234 567,89 RUB")>>,
         <<Elem({}, "Tsena kontrakta: 250000.50 completed")>> },
       { <<>>,
         <<Elem({".data-block__value"}, "01.03.2025 23:59")>>,
         <<Elem({}, "do 15.04.2025")>> } >>

CardsOf(reg) ==
    { n \o t \o c \o p \o d :
        n \in FieldMarkup(reg)[1], t \in FieldMarkup(reg)[2], c \in FieldMarkup(reg)[3],
        p \in FieldMarkup(reg)[4], d \in FieldMarkup(reg)[5] }

WellFormed(reg) ==
    <<Elem({".registry-entry__header-mid__number", "div[class*=number]"}, "# " \o reg),
      Elem({".registry-entry__body-value"}, "Supply of  office <b>furniture</b>"),
      Elem({".registry-entry__body-href"}, "Customer: City Hospital 5"),
      Elem({".price-block__value"}, "1 234 567,89 RUB"),
      Elem({".data-block__value"}, "01.03.2025 23:59")>>

NoNumberCard == Tail(WellFormed(RegA))
NoTitleCard == <<WellFormed(RegB)[1]>> \o SubSeq(WellFormed(RegB), 3, 5)

\* Lists of up to MaxCards cards built from four cards, and every single
\* card of CardsOf.
CardLists ==
    UNION { [1..n -> {WellFormed(RegA), WellFormed(RegB), NoNumberCard, NoTitleCard}] :
              n \in 2..MaxCards }
    \cup { <<c>> : c \in CardsOf(RegA) }

Container(items) == <<[items |-> items]>>

\* Pages in the current layout (the main container, the first and the last
\* item selector matching the cards), pages in the other layouts, a
\* container without cards, and pages without a container.
Pages ==
    { [text |-> "results",
       containers |-> <<Container(<<cards, <<>>, <<>>, cards>>), <<>>, <<>>>>] :
        cards \in CardLists }
    \cup
    { [text |-> "results",
       containers |-> << <<>>, Container(<<<<>>, <<WellFormed(RegA)>>, <<>>, <<>>>>),
                         Container(<<<<WellFormed(RegB)>>, <<>>, <<>>, <<>>>>)>>],
      [text |-> "results",
       containers |-> << <<>>, <<>>,
                         Container(<<<<>>, <<>>, <<WellFormed(RegB), NoNumberCard>>,
                                     <<WellFormed(RegB), NoNumberCard, WellFormed(RegA)>>>>)>>],
      [text |-> "results",
       containers |-> <<Container(<<<<>>, <<>>, <<>>, <<>>>>),
                        Container(<<<<WellFormed(RegA)>>, <<>>, <<>>, <<>>>>), <<>>>>],
      [text |-> "nothing here", containers |-> << <<>>, <<>>, <<>> >>],
      [text |-> "Please solve the CAPTCHA", containers |-> << <<>>, <<>>, <<>> >>],
      [text |-> "", containers |-> << <<>>, <<>>, <<>> >>] }

(***************************************************************************)
(* Search: SearchService.search_tenders over HttpTenderParser and          *)
(* SimpleCache.  The retry decorator of HttpTenderParser.search_tenders    *)
(* (stop_after_attempt(5), no retry predicate, no reraise) calls the       *)
(* function again after every exception, whatever its kind, and after the  *)
(* last attempt raises RetryError in place of the function's exception.    *)
(***************************************************************************)
MaxLimit == 2
MaxNow == 1800
TickStep == 1800

SearchStopAfterAttempt == 5
SearchResultsTtl == 1800

\* _get_cache_key: the query is fixed in this model and the filters are
\* empty, so the key is decided by the limit.
GetCacheKey(criteria) == criteria.limit

NoPage == [text |-> "", containers |-> << <<>>, <<>>, <<>> >>]

\* The pages the portal can answer the search GET with: two well-formed
\* cards, a card without number, results on a page that mentions a captcha,
\* a captcha page, and a page without results.
SearchPages ==
    { [text |-> "results",
       containers |-> <<Container(<<<<WellFormed(RegA), WellFormed(RegB)>>, <<>>, <<>>, <<>>>>),
                        <<>>, <<>>>>],
      [text |-> "results",
       containers |-> <<Container(<<<<NoNumberCard>>, <<>>, <<>>, <<>>>>), <<>>, <<>>>>],
      [text |-> "captcha",
       containers |-> <<Container(<<<<WellFormed(RegA)>>, <<>>, <<>>, <<>>>>), <<>>, <<>>>>],
      [text |-> "Please solve the CAPTCHA", containers |-> NoPage.containers],
      [text |-> "nothing here", containers |-> NoPage.containers] }

\* What can come back from session.get: a page with status 200, an error
\* status, or an exception of the transport.
Responses ==
    { [status |-> 200, page |-> pg, error |-> None] : pg \in SearchPages }
    \cup { [status |-> st, page |-> NoPage, error |-> None] : st \in {403, 429, 500, 503} }
    \cup { [status |-> 0, page |-> NoPage, error |-> e] :
             e \in {"TimeoutError", "ClientConnectorError"} }

\* str(n) of a natural number.
RECURSIVE IntToStr(_)
IntToStr(n) ==
    IF n < 10 THEN CharAt("0123456789", n + 1)
    ELSE IntToStr(n \div 10) \o CharAt("0123456789", (n % 10) + 1)

\* The exceptions of search_tenders; the messages are the source's, in
\* English.
Exc(type, msg) == [type |-> type, msg |-> msg]
CaptchaMessage == "The site asked for a captcha. Try later."
BlockedMessage == "Access to the site is blocked. Try later."
RateLimitedMessage == "Too many requests. Try later."
SiteErrorMessage(status) == "Site error: HTTP " \o IntToStr(status)

\* _parse_real_search_results on the pages the portal can answer with, for
\* a working directory that is writable or not.
ParsedSearchPage ==
    [pg \in SearchPages \cup {NoPage}, writable \in BOOLEAN |->
        ParseRealSearchResults(pg, writable)]

\* One run of the body of HttpTenderParser.search_tenders from the search
\* GET up to the enrichment loop, given the outcome parsed of
\* _parse_real_search_results on the page: the kind of the answer and what
\* the body does, Return(list) or Raise(exc).  "captcha" in html.lower():
\* the Cyrillic marker is written like the Latin one.
SearchBody(resp, parsed) ==
    IF resp.error # None THEN [kind |-> "transient", out |-> Raise(Exc(resp.error, ""))]
    ELSE IF resp.status = 200
    THEN IF parsed.kind = "raise"
         THEN [kind |-> "dump-failed", out |-> Raise(Exc(parsed.value, ""))]
         ELSE IF parsed.value # <<>> THEN [kind |-> "results", out |-> parsed]
         ELSE IF Contains(Lower(resp.page.text), "captcha")
         THEN [kind |-> "captcha", out |-> Raise(Exc("Exception", CaptchaMessage))]
         ELSE [kind |-> "empty", out |-> Return(<<>>)]
    ELSE IF resp.status = 403
    THEN [kind |-> "blocked", out |-> Raise(Exc("Exception", BlockedMessage))]
    ELSE IF resp.status = 429
    THEN [kind |-> "rate-limited", out |-> Raise(Exc("Exception", RateLimitedMessage))]
    ELSE [kind |-> "site-error",
          out |-> Raise(Exc("Exception", SiteErrorMessage(resp.status)))]

\* str(RetryError): names the type of the last attempt's exception, not its
\* message.
RetryError(last) ==
    Exc("RetryError", "RetryError[<Future state=finished raised " \o last.type \o ">]")

\* The except clause of SearchService.search_tenders.
WrapSearchError(e) ==
    Exc("Exception", "Failed to get data from zakupki.gov.ru: " \o e.msg)

\* What an injected parser may return in place of a dict: raw_result.get
\* raises AttributeError on it.
NotADict == [not_a_dict |-> TRUE]

\* raw.get(field, default)
Get(raw, field, default) == IF field \in DOMAIN raw THEN raw[field] ELSE default

\* str() of a price: of the float the parser gives, or of the int 0 that
\* stands in for a missing one.
StrOfPrice(price) ==
    IF price = <<>> THEN "0"
    ELSE IntToStr(price[1].int) \o "." \o (IF price[1].frac = "" THEN "0" ELSE price[1].frac)

\* The SearchResult built from one raw record (parsed_at left out); every
\* field is read with a default and none is validated.
ToSearchResult(raw) ==
    [reg_number |-> Get(raw, "reg_number", ""),
     title |-> Get(raw, "title", "Untitled"),
     customer |-> Get(raw, "customer", "Customer not given"),
     price |-> StrOfPrice(IF "initial_price" \in DOMAIN raw THEN <<raw.initial_price>>
                          ELSE <<>>),
     tender_type |-> Get(raw, "tender_type", "unknown"),
     status |-> Get(raw, "status", "active"),
     deadline |-> Get(raw, "deadline", <<>>),
     source_url |-> Get(raw, "source_url", "")]

\* The conversion loop of SearchService.search_tenders: a raw record whose
\* conversion raises is skipped, the others become SearchResults in order.
RECURSIVE ConvertRawResults(_)
ConvertRawResults(raw_results) ==
    IF raw_results = <<>> THEN <<>>
    ELSE (IF Head(raw_results) = NotADict THEN <<>>
          ELSE <<ToSearchResult(Head(raw_results))>>)
         \o ConvertRawResults(Tail(raw_results))

\* A merge in which the fields of the card win.
UpdateKeepingBasic(basic, detail) ==
    [f \in DOMAIN basic \cup DOMAIN detail |->
        IF f \in DOMAIN basic THEN basic[f] ELSE detail[f]]

\* enhanced = basic_data.copy(); enhanced.update(detailed_data)
Update(basic, detail) ==
    [f \in DOMAIN basic \cup DOMAIN detail |->
        IF f \in DOMAIN detail THEN detail[f] ELSE basic[f]]

\* What parse_tender_details can give for a registration number: nothing, or
\* the fields of the detail page.
DetailOutcomes(reg) ==
    { <<>>,
      <<[reg_number |-> reg, initial_price |-> Num(500000, ""),
         description |-> "Detail page description"]>> }

\* SimpleCache.get without the comparison with the expiry time.
CacheGetIgnoringExpiry(c, key, t) ==
    IF c[key] = <<>> THEN [value |-> <<>>, cache |-> c]
    ELSE [value |-> c[key][1].value, cache |-> c]

\* SimpleCache.get at time t: the value (<<>> when absent or expired) and the
\* cache after the lazy removal of an expired entry.
CacheGet(c, key, t) ==
    IF c[key] = <<>> THEN [value |-> <<>>, cache |-> c]
    ELSE IF t < c[key][1].expiry THEN [value |-> c[key][1].value, cache |-> c]
    ELSE [value |-> <<>>, cache |-> [c EXCEPT ![key] = <<>>]]

\* SimpleCache.set that keeps the expiry time of an entry it replaces.
CacheSetKeepingExpiry(c, key, value, ttl, t) ==
    [c EXCEPT ![key] = <<[value |-> value,
                          expiry |-> IF c[key] = <<>> THEN t + ttl ELSE c[key][1].expiry]>>]

\* SimpleCache.set
CacheSet(c, key, value, ttl, t) ==
    [c EXCEPT ![key] = <<[value |-> value, expiry |-> t + ttl]>>]

\* SimpleCache.delete
CacheDelete(c, key) == [c EXCEPT ![key] = <<>>]

\* SimpleCache.clear
CacheClear(c) == [k \in DOMAIN c |-> <<>>]

\* search_tenders is called: the cache is consulted and, on a miss, the
\* parser's session is opened.
SvcCall(use_cache, limit) ==
    /\ svcPc = "idle"
    /\ svcArgs' = [use_cache |-> use_cache, limit |-> limit]
    /\ LET got == CacheGet(cache, GetCacheKey(svcArgs'), now)
       IN  IF use_cache /\ got.value # <<>>
           THEN /\ cache' = got.cache
                /\ svcOut' = Return(got.value)
                /\ svcPc' = "done"
                /\ UNCHANGED <<session, attempt>>
           ELSE /\ cache' = IF use_cache THEN got.cache ELSE cache
                /\ session' = "open"
                /\ attempt' = 1
                /\ svcPc' = "warmup"
                /\ UNCHANGED svcOut
    /\ lastResponse' = None
    /\ searchGets' = 0
    /\ homeGets' = 0
    /\ UNCHANGED <<now, results, enhanced, parseVars, econVars, textVars, retryVars,
                   detailVars, moreVars>>

\* _initialize_session: the warm-up GET; whatever it answers is tolerated.
Warmup ==
    /\ svcPc = "warmup"
    /\ homeGets' = homeGets + 1
    /\ svcPc' = "get"
    /\ UNCHANGED <<now, cache, svcArgs, session, attempt, lastResponse, searchGets,
                   results, enhanced, svcOut, parseVars, econVars, textVars, retryVars,
                   detailVars, moreVars>>

\* What follows the outcome r of the body: a raise is retried or, after the
\* last attempt, ends the call with RetryError, which the service wraps; an
\* empty list ends it; records are enriched.
AfterSearch(r) ==
    IF r.kind = "raise"
    THEN IF attempt >= SearchStopAfterAttempt
         THEN /\ session' = "closed"
              /\ svcOut' = Raise(WrapSearchError(RetryError(r.value)))
              /\ svcPc' = "done"
              /\ UNCHANGED <<results, enhanced>>
         ELSE /\ svcPc' = "backoff"
              /\ UNCHANGED <<session, results, enhanced, svcOut>>
    ELSE IF r.value = <<>>
    THEN /\ session' = "closed"
         /\ svcOut' = Return(<<>>)
         /\ svcPc' = "done"
         /\ UNCHANGED <<results, enhanced>>
    ELSE /\ results' = SubSeq(r.value, 1, Min(svcArgs.limit, Len(r.value)))
         /\ enhanced' = <<>>
         /\ svcPc' = "enrich"
         /\ UNCHANGED <<session, svcOut>>

\* The search GET is answered by resp.
SearchGet(resp) ==
    /\ svcPc = "get"
    /\ searchGets' = searchGets + 1
    /\ lastResponse' = SearchBody(resp, ParsedSearchPage[resp.page, cwdWritable].out).kind
    /\ debugDump' = IF /\ resp.error = None
                       /\ resp.status = 200
                       /\ ParsedSearchPage[resp.page, cwdWritable].dump # None
                    THEN ParsedSearchPage[resp.page, cwdWritable].dump
                    ELSE debugDump
    /\ AfterSearch(SearchBody(resp, ParsedSearchPage[resp.page, cwdWritable].out).out)
    /\ UNCHANGED <<now, cache, svcArgs, attempt, homeGets, html, cwdWritable, parsePc,
                   parseOut, econVars, textVars, retryVars,
                   detailVars, moreVars>>

\* A retry that does not count its attempts.
BackoffWithoutCounting ==
    /\ svcPc = "backoff"
    /\ svcPc' = "warmup"
    /\ UNCHANGED <<now, cache, svcArgs, session, attempt, lastResponse, searchGets, homeGets,
                   results, enhanced, svcOut, parseVars, econVars, textVars, retryVars,
                   detailVars, moreVars>>

\* The retry decorator slept and calls search_tenders again.
Backoff ==
    /\ svcPc = "backoff"
    /\ attempt' = attempt + 1
    /\ svcPc' = "warmup"
    /\ UNCHANGED <<now, cache, svcArgs, session, lastResponse, searchGets, homeGets,
                   results, enhanced, svcOut, parseVars, econVars, textVars, retryVars,
                   detailVars, moreVars>>

\* One turn of the enrichment loop; after the last one the parser returns,
\* the session is closed and the service converts and caches the records.
Enrich(detail) ==
    /\ svcPc = "enrich"
    /\ LET result == results[Len(enhanced) + 1]
           enhanced_result == IF detail = <<>> THEN result ELSE Update(result, detail[1])
           all == Append(enhanced, enhanced_result)
       IN  IF Len(all) < Len(results)
           THEN /\ enhanced' = all
                /\ UNCHANGED <<cache, session, svcPc, svcOut>>
           ELSE LET search_results == ConvertRawResults(all)
                IN  /\ enhanced' = all
                    /\ session' = "closed"
                    /\ cache' = IF svcArgs.use_cache /\ search_results # <<>>
                                THEN CacheSet(cache, GetCacheKey(svcArgs), search_results,
                                              SearchResultsTtl, now)
                                ELSE cache
                    /\ svcOut' = Return(search_results)
                    /\ svcPc' = "done"
    /\ UNCHANGED <<now, svcArgs, attempt, lastResponse, searchGets, homeGets, results,
                   parseVars, econVars, textVars, retryVars,
                   detailVars, moreVars>>

\* The caller has its answer; the call's frame is gone and the service is
\* ready for the next call.
SvcFrameGone ==
    /\ svcPc' = "idle"
    /\ svcArgs' = [use_cache |-> FALSE, limit |-> 0]
    /\ session' = "none"
    /\ attempt' = 0
    /\ lastResponse' = None
    /\ searchGets' = 0
    /\ homeGets' = 0
    /\ results' = <<>>
    /\ enhanced' = <<>>
    /\ svcOut' = Return(<<>>)

SvcReturn ==
    /\ svcPc = "done"
    /\ SvcFrameGone
    /\ UNCHANGED <<now, cache, parseVars, econVars, textVars, retryVars,
                   detailVars, moreVars>>

\* Time passes.
Tick ==
    /\ now < MaxNow
    /\ now' = now + TickStep
    /\ UNCHANGED <<cache, svcPc, svcArgs, session, attempt, lastResponse, searchGets,
                   homeGets, results, enhanced, svcOut, parseVars, econVars, textVars, retryVars,
                   detailVars, moreVars>>

\* The state of each component before anything is called.
ParseIdle ==
    /\ parsePc = "ready"
    /\ parseOut = Return(<<>>)
    /\ debugDump = None

SearchIdle ==
    /\ now = 0
    /\ cache = [k \in 1..MaxLimit |-> <<>>]
    /\ svcPc = "idle"
    /\ svcArgs = [use_cache |-> FALSE, limit |-> 0]
    /\ session = "none"
    /\ attempt = 0
    /\ lastResponse = None
    /\ searchGets = 0
    /\ homeGets = 0
    /\ results = <<>>
    /\ enhanced = <<>>
    /\ svcOut = Return(<<>>)

TextIdle ==
    /\ textCall = <<>>
    /\ textOut = <<>>

\* The registration numbers that tenders are asked for by.
RegNumbers == {RegA, RegB}

RetryIdle ==
    /\ retryPc = "idle"
    /\ retryArgs = [limit |-> 0, max_attempts |-> 0]
    /\ retryAttempt = 0
    /\ retryOutcomes = <<>>
    /\ retrySlept = <<>>
    /\ retryGets = <<>>
    /\ retryOut = Return(<<>>)

DetailIdle ==
    /\ repository = [reg \in RegNumbers |-> <<>>]
    /\ detPc = "idle"
    /\ detArgs = [reg_number |-> "", force_refresh |-> FALSE]
    /\ detAttempt = 0
    /\ detRequests = <<>>
    /\ detResponses = <<>>
    /\ detailsOut = <<>>
    /\ detOut = Return(<<>>)

CacheOpsIdle ==
    /\ cacheCall = <<>>
    /\ cacheOut = <<>>
    /\ lastSet = [k \in 1..MaxLimit |-> <<>>]

KeyIdle ==
    /\ keyCall = <<>>
    /\ keyOut = <<>>

DashIdle ==
    /\ rawShown = <<>>
    /\ searchResults = <<>>
    /\ selectedTenders = <<>>
    /\ econInput = <<>>

\* The callers of one SearchService, each running one call at a time.
Callers == {1, 2}

NoCall == [pc |-> "idle", kind |-> "None", session |-> 0, requests |-> 0, outcome |-> "None"]

SessionsIdle ==
    /\ serialized = TRUE
    /\ sessions = <<>>
    /\ parserSession = 0
    /\ calls = [c \in Callers |-> NoCall]
    /\ lastRequest = <<>>

MoreIdle ==
    /\ CacheOpsIdle
    /\ KeyIdle
    /\ DashIdle
    /\ SessionsIdle

EconIdle ==
    /\ team = <<>>
    /\ config = <<>>
    /\ econPc = "team"
    /\ ctorError = <<>>
    /\ tenderAmount = <<>>
    /\ econOut = Return(<<>>)

SearchInit ==
    /\ html = NoPage
    /\ cwdWritable \in BOOLEAN
    /\ ParseIdle
    /\ SearchIdle
    /\ EconIdle
    /\ TextIdle
    /\ RetryIdle
    /\ DetailIdle
    /\ MoreIdle

SearchNext ==
    \/ \E use_cache \in BOOLEAN, limit \in 1..MaxLimit : SvcCall(use_cache, limit)
    \/ Warmup
    \/ \E resp \in Responses : SearchGet(resp)
    \/ Backoff
    \/ \E reg \in {RegA, RegB} : \E detail \in DetailOutcomes(reg) :
          /\ svcPc = "enrich"
          /\ results[Len(enhanced) + 1].reg_number = reg
          /\ Enrich(detail)
    \/ SvcReturn
    \/ Tick

SpecSearch == SearchInit /\ [][SearchNext]_vars

(***************************************************************************)
(* SpecParse: _parse_real_search_results applied to every bounded page.    *)
(***************************************************************************)
ParseInit ==
    /\ html \in Pages
    /\ cwdWritable \in BOOLEAN
    /\ ParseIdle
    /\ SearchIdle
    /\ EconIdle
    /\ TextIdle
    /\ RetryIdle
    /\ DetailIdle
    /\ MoreIdle

ParseCall ==
    /\ parsePc = "ready"
    /\ \E r \in {ParseRealSearchResults(html, cwdWritable)} :
          /\ parseOut' = r.out
          /\ debugDump' = r.dump
    /\ parsePc' = "done"
    /\ UNCHANGED <<html, cwdWritable, searchVars, econVars, textVars, retryVars,
                   detailVars, moreVars>>

SpecParse == ParseInit /\ [][ParseCall]_vars

(***************************************************************************)
(* Numbers of the economics code.                                          *)
(*                                                                         *)
(* A Decimal is kept as the rational it denotes, [n, d] in lowest terms    *)
(* with d > 0: Decimal addition, subtraction and multiplication are exact  *)
(* for the amounts at hand, and a quotient is kept exact too (the code     *)
(* rounds it to 28 digits and then to a float).                            *)
(*                                                                         *)
(* A float that the code adds (a team percentage, a risk increment) is a   *)
(* binary64 value, kept as the integer number of units of 2^-60 it is made *)
(* of, in three limbs of 20 bits: hi * 2^40 + mid * 2^20 + lo.  Every      *)
(* binary64 value v with 2^-7 <= v < 8 is a whole number of such units.    *)
(* A percentage is written in hundredths: 33 is the float 0.33.            *)
(***************************************************************************)
RECURSIVE Gcd(_, _)
Gcd(a, b) == IF b = 0 THEN a ELSE Gcd(b, a % b)

\* The rational n / d (d # 0).
Rat(n, d) ==
    LET g == Gcd(IF n < 0 THEN -n ELSE n, IF d < 0 THEN -d ELSE d)
    IN  IF d < 0 THEN [n |-> (-n) \div g, d |-> (-d) \div g]
        ELSE [n |-> n \div g, d |-> d \div g]

RAdd(a, b) == Rat(a.n * b.d + b.n * a.d, a.d * b.d)
RSub(a, b) == Rat(a.n * b.d - b.n * a.d, a.d * b.d)
RMul(a, b) == Rat(a.n * b.n, a.d * b.d)
\* a / b for b # 0
RDiv(a, b) == Rat(a.n * b.d, a.d * b.n)
\* a < b
RLess(a, b) == a.n * b.d < b.n * a.d

\* sum(values), and "total = Decimal(0); for v in values: total += v"
RECURSIVE RSum(_)
RSum(values) ==
    IF values = <<>> THEN Rat(0, 1)
    ELSE RAdd(RSum(SubSeq(values, 1, Len(values) - 1)), values[Len(values)])

Limb == 1024 * 1024

\* The limbs after the carries are passed up.
Carry(x) ==
    [hi |-> x.hi + (x.mid + x.lo \div Limb) \div Limb,
     mid |-> (x.mid + x.lo \div Limb) % Limb,
     lo |-> x.lo % Limb]

\* The unit in the last place of the binary64 values of x's binade, in units
\* of 2^-60: 53 significant bits below the leading one.
\* Below 2^-8 the unit of this representation is coarser than binary64's and
\* nothing is rounded.
Ulp(x) ==
    IF x.hi < 4096 THEN 1
    ELSE CHOOSE u \in {2^j : j \in 0..18} : u <= x.hi \div 4096 /\ x.hi \div 4096 < 2 * u

\* x, with sticky telling that the exact value lies above x by less than a
\* unit, rounded to the nearest binary64 value, ties to even.
RoundToDouble(x, sticky) ==
    IF x.hi = 0 THEN x
    ELSE LET low == x.lo % Ulp(x)
             up == \/ low * 2 > Ulp(x)
                   \/ low * 2 = Ulp(x) /\ (sticky \/ (x.lo \div Ulp(x)) % 2 = 1)
         IN  Carry([hi |-> x.hi, mid |-> x.mid,
                    lo |-> x.lo - low + (IF up THEN Ulp(x) ELSE 0)])

\* The float of the literal k / 100 (0 <= k < 800): the binary64 value
\* nearest to it.
FloatOfHundredths(k) ==
    LET a == k * Limb
        b == (a % 100) * Limb
        c == (b % 100) * Limb
    IN  RoundToDouble([hi |-> a \div 100, mid |-> b \div 100, lo |-> c \div 100],
                      c % 100 # 0)

\* a + b of two floats: the exact sum, rounded.
FloatAdd(a, b) ==
    RoundToDouble(Carry([hi |-> a.hi + b.hi, mid |-> a.mid + b.mid, lo |-> a.lo + b.lo]),
                  FALSE)

\* a > b
FloatGreater(a, b) ==
    \/ a.hi > b.hi
    \/ a.hi = b.hi /\ a.mid > b.mid
    \/ a.hi = b.hi /\ a.mid = b.mid /\ a.lo > b.lo

\* sum(...) of floats given in hundredths: from 0, left to right.
RECURSIVE FloatSum(_)
FloatSum(hundredths) ==
    IF hundredths = <<>> THEN FloatOfHundredths(0)
    ELSE FloatAdd(FloatSum(SubSeq(hundredths, 1, Len(hundredths) - 1)),
                  FloatOfHundredths(hundredths[Len(hundredths)]))

\* The next k binary digits of rem / d (0 <= rem < d), and what remains.
RECURSIVE FracBits(_, _, _, _)
FracBits(rem, d, k, acc) ==
    IF k = 0 THEN [digits |-> acc, rem |-> rem]
    ELSE FracBits((2 * rem) % d, d, k - 1, 2 * acc + (2 * rem) \div d)

\* The limbs of n / d (0 <= n / d < 2048) cut off at 2^-60, rounded to a
\* float given the digits of each limb in turn.
FloatOfDigits(whole, d, first, second, third) ==
    RoundToDouble([hi |-> whole * Limb + first.digits, mid |-> second.digits,
                   lo |-> third.digits],
                  third.rem # 0)

FloatOfLimbs(whole, d, first, second) ==
    FloatOfDigits(whole, d, first, second, FracBits(second.rem, d, 20, 0))

\* float(decimal) of a Decimal that is not negative: the binary64 value
\* nearest to it.  (The Decimal is a quotient rounded to 28 digits; for the
\* amounts at hand that rounding is too small to change the nearest float.)
FloatOfMagnitude(r) ==
    FloatOfLimbs(r.n \div r.d, r.d, FracBits(r.n % r.d, r.d, 20, 0),
                 FracBits(FracBits(r.n % r.d, r.d, 20, 0).rem, r.d, 20, 0))

\* A float of either sign: its sign and its magnitude.
Signed(neg, mag) == [neg |-> neg, mag |-> mag]

\* float(decimal)
FloatOfDecimal(r) ==
    IF r.n < 0 THEN Signed(TRUE, FloatOfMagnitude(Rat(-r.n, r.d)))
    ELSE Signed(FALSE, FloatOfMagnitude(r))

\* The float of a whole number that is not negative.
FloatOfInt(n) == [hi |-> n * Limb, mid |-> 0, lo |-> 0]

\* The limbs after the borrows are passed up (of a difference that is not
\* negative).
Borrow(x) ==
    [hi |-> x.hi - (IF x.mid - (IF x.lo < 0 THEN 1 ELSE 0) < 0 THEN 1 ELSE 0),
     mid |-> (x.mid - (IF x.lo < 0 THEN 1 ELSE 0) + Limb) % Limb,
     lo |-> (x.lo + Limb) % Limb]

\* a - b of two magnitudes with a >= b: the exact difference, rounded.
MagnitudeSub(a, b) ==
    RoundToDouble(Borrow([hi |-> a.hi - b.hi, mid |-> a.mid - b.mid, lo |-> a.lo - b.lo]),
                  FALSE)

\* x - n of a float and a whole number n >= 0
FloatSubInt(x, n) ==
    IF x.neg THEN Signed(TRUE, FloatAdd(x.mag, FloatOfInt(n)))
    ELSE IF FloatGreater(FloatOfInt(n), x.mag)
    THEN Signed(TRUE, MagnitudeSub(FloatOfInt(n), x.mag))
    ELSE Signed(FALSE, MagnitudeSub(x.mag, FloatOfInt(n)))

\* The limbs of mag / n, given the quotient of each limb in turn.
QuotientOfLimbs(mag, n, mid_dividend) ==
    RoundToDouble([hi |-> mag.hi \div n,
                   mid |-> mid_dividend \div n,
                   lo |-> ((mid_dividend % n) * Limb + mag.lo) \div n],
                  ((mid_dividend % n) * Limb + mag.lo) % n # 0)

\* x / n of a float and a whole number 0 < n < 2048: the exact quotient,
\* rounded.
FloatDivInt(x, n) ==
    Signed(x.neg, QuotientOfLimbs(x.mag, n, (x.mag.hi % n) * Limb + x.mag.mid))

\* x * n of a float and a whole number n >= 0 (the product below 2048): the
\* exact product, rounded.
FloatMulInt(x, n) ==
    Signed(x.neg,
           RoundToDouble(Carry([hi |-> x.mag.hi * n, mid |-> x.mag.mid * n,
                                lo |-> x.mag.lo * n]),
                         FALSE))

\* x >= n and x >= -n of a float and a whole number n > 0
AtLeastInt(x, n) == ~x.neg /\ ~FloatGreater(FloatOfInt(n), x.mag)
AtLeastMinusInt(x, n) == ~x.neg \/ ~FloatGreater(x.mag, FloatOfInt(n))

(***************************************************************************)
(* Value objects: TeamRole and ProjectConfig.                              *)
(***************************************************************************)
\* TeamRole.__post_init__: "0 <= self.percentage <= 1".  The float nearest
\* to k / 100 lies in [0, 1] exactly when k / 100 does.
TeamRoleAccepts(percentage) == 0 <= percentage /\ percentage <= 100

\* The team dict built from the percentages, in order: each TeamRole is
\* constructed in turn and the first that raises ends the construction.
TeamOf(percentages) ==
    IF \E i \in 1..Len(percentages) : ~TeamRoleAccepts(percentages[i])
    THEN Raise([of |-> "TeamRole", type |-> "ValueError",
                arg |-> <<percentages[MinOf({i \in 1..Len(percentages) :
                                                ~TeamRoleAccepts(percentages[i])})]>>])
    ELSE Return([i \in 1..Len(percentages) |->
                    [name |-> "role" \o IntToStr(i), percentage |-> percentages[i]]])

\* The percentages of a team, in dict order.
Percentages(roles) == [i \in 1..Len(roles) |-> roles[i].percentage]

\* ProjectConfig.__post_init__: "total_percentage > 1.0" raises.
ProjectConfigRejects(roles) ==
    FloatGreater(FloatSum(Percentages(roles)), FloatOfHundredths(100))

(***************************************************************************)
(* EconomicsService.calculate_project_economics.                           *)
(***************************************************************************)
\* _calculate_team_costs: Decimal(str(role.percentage)) is the decimal the
\* percentage was written as.
CalculateTeamCosts(cfg) ==
    [breakdown |-> [i \in 1..Len(cfg.team) |->
                       RMul(cfg.total_amount, Rat(cfg.team[i].percentage, 100))],
     total |-> RSum([i \in 1..Len(cfg.team) |->
                       RMul(cfg.total_amount, Rat(cfg.team[i].percentage, 100))])]

\* _calculate_taxes: the rates are floats given in hundredths.
CalculateTaxes(gross_profit, taxes) ==
    RSum([i \in 1..Len(taxes) |-> RMul(gross_profit, Rat(taxes[i], 100))])

\* gross_profit were the overhead not subtracted.
GrossProfitWithoutOverhead(tender_amount, team_costs, overhead_costs) ==
    RSub(tender_amount, team_costs)

GrossProfit(tender_amount, team_costs, overhead_costs) ==
    RSub(RSub(tender_amount, team_costs), overhead_costs)

NetProfit(gross_profit, tax_costs) == RSub(gross_profit, tax_costs)

\* total_costs were the taxes left out of it.
TotalCostsWithoutTax(team_costs, overhead_costs, tax_costs) ==
    RAdd(team_costs, overhead_costs)

TotalCosts(team_costs, overhead_costs, tax_costs) ==
    RAdd(RAdd(team_costs, overhead_costs), tax_costs)

\* _calculate_profit_margin were its guard "total_revenue == 0".
ProfitMarginGuardingZeroOnly(net_profit, total_revenue) ==
    IF total_revenue.n = 0 THEN [value |-> Rat(0, 1), divided_by |-> <<>>]
    ELSE [value |-> RMul(RDiv(net_profit, total_revenue), Rat(100, 1)),
          divided_by |-> <<total_revenue>>]

\* _calculate_profit_margin: the value and, in divided_by, the divisor of
\* the division it performed (none when it returned early).
CalculateProfitMargin(net_profit, total_revenue) ==
    IF total_revenue.n <= 0 THEN [value |-> Rat(0, 1), divided_by |-> <<>>]
    ELSE [value |-> RMul(RDiv(net_profit, total_revenue), Rat(100, 1)),
          divided_by |-> <<total_revenue>>]

\* _calculate_roi, likewise.
CalculateRoi(investment, profit) ==
    IF investment.n <= 0 THEN [value |-> Rat(0, 1), divided_by |-> <<>>]
    ELSE [value |-> RMul(RDiv(profit, investment), Rat(100, 1)),
          divided_by |-> <<investment>>]

\* _calculate_payback_period were the profit not spread over the months.
PaybackOverWholeProfit(cfg, net_profit) ==
    IF net_profit.n <= 0 THEN Return(<<>>)
    ELSE IF cfg.duration_months = 0 THEN Raise("DivisionByZero")
    ELSE IF RDiv(net_profit, Rat(cfg.duration_months, 1)).n <= 0 THEN Return(<<>>)
    ELSE Return(<<RDiv(cfg.total_amount, net_profit)>>)

\* _calculate_payback_period: None, a number of months, or the
\* DivisionByZero of "net_profit / config.duration_months".
CalculatePaybackPeriod(cfg, net_profit) ==
    IF net_profit.n <= 0 THEN Return(<<>>)
    ELSE IF cfg.duration_months = 0 THEN Raise("DivisionByZero")
    ELSE IF RDiv(net_profit, Rat(cfg.duration_months, 1)).n <= 0 THEN Return(<<>>)
    ELSE Return(<<RDiv(cfg.total_amount, RDiv(net_profit, Rat(cfg.duration_months, 1)))>>)

\* project_risk_map.get(project_type, 0.5), in hundredths.
BaseRisk(project_type) ==
    CASE project_type = "architecture" -> 30
      [] project_type = "engineering" -> 40
      [] project_type = "landscaping" -> 20
      [] project_type = "complex" -> 60
      [] project_type = "restoration" -> 70
      [] project_type = "infrastructure" -> 50
      [] OTHER -> 50

\* The risk factors were a small team to weigh as little as a large one.
RiskFactorsSmallTeamAsLarge(cfg, profit_margin) ==
    (IF cfg.duration_months > 12 THEN <<[inc |-> 20, name |-> "Long project (> 12 months)"]>>
     ELSE IF cfg.duration_months > 6
     THEN <<[inc |-> 10, name |-> "Medium project (6-12 months)"]>>
     ELSE <<>>)
    \o (IF RLess(profit_margin, Rat(10, 1))
        THEN <<[inc |-> 30, name |-> "Low profit margin (< 10%)"]>>
        ELSE IF RLess(profit_margin, Rat(15, 1))
        THEN <<[inc |-> 10, name |-> "Medium profit margin (10-15%)"]>>
        ELSE <<>>)
    \o (IF Len(cfg.team) > 8 THEN <<[inc |-> 10, name |-> "Large team (> 8 people)"]>>
        ELSE IF Len(cfg.team) < 3 THEN <<[inc |-> 10, name |-> "Small team (< 3 people)"]>>
        ELSE <<>>)

\* The risk factors of _assess_risk, each with the increment of the score it
\* brings (in hundredths), in the order they are tested.
RiskFactors(cfg, profit_margin) ==
    (IF cfg.duration_months > 12 THEN <<[inc |-> 20, name |-> "Long project (> 12 months)"]>>
     ELSE IF cfg.duration_months > 6
     THEN <<[inc |-> 10, name |-> "Medium project (6-12 months)"]>>
     ELSE <<>>)
    \o (IF RLess(profit_margin, Rat(10, 1))
        THEN <<[inc |-> 30, name |-> "Low profit margin (< 10%)"]>>
        ELSE IF RLess(profit_margin, Rat(15, 1))
        THEN <<[inc |-> 10, name |-> "Medium profit margin (10-15%)"]>>
        ELSE <<>>)
    \o (IF Len(cfg.team) > 8 THEN <<[inc |-> 10, name |-> "Large team (> 8 people)"]>>
        ELSE IF Len(cfg.team) < 3 THEN <<[inc |-> 20, name |-> "Small team (< 3 people)"]>>
        ELSE <<>>)

\* The level of a score were the score not limited to 1.0.
RiskOfScoreUnclamped(score, factors) ==
    [risk_score |-> score,
     risk_level |-> IF ~FloatGreater(FloatOfHundredths(70), score) THEN "critical"
                    ELSE IF ~FloatGreater(FloatOfHundredths(50), score) THEN "high"
                    ELSE IF ~FloatGreater(FloatOfHundredths(30), score) THEN "medium"
                    ELSE "low",
     risk_factors |-> [i \in 1..Len(factors) |-> factors[i].name]]

\* The level of a score: "risk_score = min(risk_score, 1.0)" and the
\* thresholds.
RiskOfScore(score, factors) ==
    [risk_score |-> IF FloatGreater(score, FloatOfHundredths(100))
                    THEN FloatOfHundredths(100) ELSE score,
     risk_level |-> IF ~FloatGreater(FloatOfHundredths(70), score) THEN "critical"
                    ELSE IF ~FloatGreater(FloatOfHundredths(50), score) THEN "high"
                    ELSE IF ~FloatGreater(FloatOfHundredths(30), score) THEN "medium"
                    ELSE "low",
     risk_factors |-> [i \in 1..Len(factors) |-> factors[i].name]]

\* _assess_risk: the score is 0.0 plus the base risk plus the increments,
\* added as floats in that order.
AssessRisk(cfg, profit_margin) ==
    RiskOfScore(FloatSum(<<BaseRisk(cfg.project_type)>>
                         \o [i \in 1..Len(RiskFactors(cfg, profit_margin)) |->
                                RiskFactors(cfg, profit_margin)[i].inc]),
                RiskFactors(cfg, profit_margin))

\* market_averages.get(project_type, ...): profit margin and ROI.
MarketAverages(project_type) ==
    CASE project_type = "architecture" -> [profit_margin |-> 15, roi |-> 25]
      [] project_type = "engineering" -> [profit_margin |-> 12, roi |-> 20]
      [] project_type = "landscaping" -> [profit_margin |-> 18, roi |-> 30]
      [] project_type = "complex" -> [profit_margin |-> 10, roi |-> 15]
      [] project_type = "restoration" -> [profit_margin |-> 8, roi |-> 12]
      [] project_type = "infrastructure" -> [profit_margin |-> 13, roi |-> 22]
      [] OTHER -> [profit_margin |-> 12, roi |-> 20]

\* _get_market_position, from diff_percent (a float).
MarketPositionOf(diff_percent) ==
    IF AtLeastInt(diff_percent, 20) THEN "Far above the market"
    ELSE IF AtLeastInt(diff_percent, 10) THEN "Above the market"
    ELSE IF AtLeastMinusInt(diff_percent, 10) THEN "At the market level"
    ELSE IF AtLeastMinusInt(diff_percent, 20) THEN "Below the market"
    ELSE "Far below the market"

\* The margins whose diff_percent the float representation holds; beyond
\* them diff_percent is far from every threshold and its sign decides.
MarginLimit == 100

\* _get_market_position: "(our_margin - market_avg) / market_avg * 100" in
\* float arithmetic, each operation rounded.  our_margin is the Decimal the
\* margin was computed as, market_avg the whole number of the table.
GetMarketPosition(our_margin, market_avg) ==
    IF market_avg <= 0 THEN MarketPositionOf(Signed(FALSE, FloatOfInt(0)))
    ELSE IF RLess(Rat(MarginLimit, 1), our_margin) THEN "Far above the market"
    ELSE IF RLess(our_margin, Rat(-MarginLimit, 1)) THEN "Far below the market"
    ELSE MarketPositionOf(
             FloatMulInt(FloatDivInt(FloatSubInt(FloatOfDecimal(our_margin), market_avg),
                                     market_avg),
                         100))

GetMarketComparison(project_type, profit_margin) ==
    [market_avg_profit_margin |-> MarketAverages(project_type).profit_margin,
     market_avg_roi |-> MarketAverages(project_type).roi,
     profit_margin_diff |->
        RSub(profit_margin, Rat(MarketAverages(project_type).profit_margin, 1)),
     market_position |->
        GetMarketPosition(profit_margin, MarketAverages(project_type).profit_margin)]

\* calculate_project_economics: Return(EconomicsResult) or Raise(exception);
\* the except clause re-raises.  divided_by is not a field of the result:
\* it lists the divisors the margin and the ROI were computed with.
CalculateProjectEconomics(tender_amount, cfg) ==
    LET team_costs == CalculateTeamCosts(cfg).total
        overhead_costs == RSum(cfg.overhead_costs)
        gross_profit == GrossProfit(tender_amount, team_costs, overhead_costs)
        tax_costs == CalculateTaxes(gross_profit, cfg.taxes)
        net_profit == NetProfit(gross_profit, tax_costs)
        total_costs == TotalCosts(team_costs, overhead_costs, tax_costs)
        profit_margin == CalculateProfitMargin(net_profit, tender_amount)
    IN  IF CalculatePaybackPeriod(cfg, net_profit).kind = "raise"
        THEN CalculatePaybackPeriod(cfg, net_profit)
        ELSE Return([total_revenue |-> tender_amount,
                     total_costs |-> total_costs,
                     gross_profit |-> gross_profit,
                     net_profit |-> net_profit,
                     profit_margin |-> profit_margin.value,
                     roi |-> CalculateRoi(total_costs, net_profit).value,
                     payback_period_months |-> CalculatePaybackPeriod(cfg, net_profit).value,
                     team_costs |-> team_costs,
                     overhead_costs |-> overhead_costs,
                     tax_costs |-> tax_costs,
                     team_breakdown |-> CalculateTeamCosts(cfg).breakdown,
                     risk_level |-> AssessRisk(cfg, profit_margin.value).risk_level,
                     risk_score |-> AssessRisk(cfg, profit_margin.value).risk_score,
                     risk_factors |-> AssessRisk(cfg, profit_margin.value).risk_factors,
                     market_comparison |->
                        GetMarketComparison(cfg.project_type, profit_margin.value),
                     divided_by |-> profit_margin.divided_by
                                    \o CalculateRoi(total_costs, net_profit).divided_by])

(***************************************************************************)
(* SpecEcon: a team is built, a ProjectConfig is constructed from it and   *)
(* the economics of a tender are calculated.                               *)
(***************************************************************************)
MaxRoles == 2

\* Teams of up to MaxRoles roles with percentages in and out of range, and
\* some larger teams: four that use up exactly 100%, a standard template and
\* one of ten roles.
TeamChoices ==
    UNION { [1..n -> {-10, 0, 50, 100, 150}] : n \in 0..MaxRoles }
    \cup { <<50, 30, 20>>, <<40, 30, 18>>, <<33, 56, 11>>, <<25, 25, 25, 25>>,
           <<29, 23, 31, 7, 10>>,
           <<15, 25, 12, 8, 8, 12>>, <<10, 10, 10, 10, 10, 10, 10, 10, 10, 5>> }

\* The other fields of a ProjectConfig: amounts are whole roubles, tax rates
\* are in hundredths.  duration_months is an int and project_type a value
\* that nothing validates ("other" is a type the tables do not list).
ConfigChoices ==
    [total_amount : {Rat(0, 1), Rat(1000, 1), Rat(5000000, 1)},
     duration_months : {-6, 0, 6, 9, 13},
     project_type : {"architecture", "engineering", "landscaping", "complex",
                     "restoration", "infrastructure", "other"},
     overhead_costs : {<<>>, <<Rat(100000, 1)>>},
     taxes : {<<>>, <<20>>, <<20, 30>>}]

TenderAmounts == {Rat(-1000, 1), Rat(0, 1), Rat(1000, 1), Rat(5000000, 1)}

\* The caller builds the team: one TeamRole per percentage.
NewTeam(percentages) ==
    /\ econPc = "team"
    /\ IF TeamOf(percentages).kind = "raise"
       THEN /\ ctorError' = <<TeamOf(percentages).value>>
            /\ UNCHANGED <<team, econPc>>
       ELSE /\ team' = TeamOf(percentages).value
            /\ econPc' = "roles"
            /\ ctorError' = <<>>
    /\ UNCHANGED <<config, tenderAmount, econOut, parseVars, searchVars, textVars, retryVars,
                   detailVars, moreVars>>

\* ProjectConfig(...) is constructed from the team.
NewProjectConfig(fields) ==
    /\ econPc = "roles"
    /\ IF ProjectConfigRejects(team)
       THEN /\ ctorError' = <<[of |-> "ProjectConfig", type |-> "ValueError",
                               arg |-> Percentages(team)]>>
            /\ UNCHANGED <<config, econPc>>
       ELSE /\ config' = <<[total_amount |-> fields.total_amount,
                            duration_months |-> fields.duration_months,
                            project_type |-> fields.project_type,
                            team |-> team,
                            overhead_costs |-> fields.overhead_costs,
                            taxes |-> fields.taxes]>>
            /\ econPc' = "configured"
            /\ ctorError' = <<>>
    /\ UNCHANGED <<team, tenderAmount, econOut, parseVars, searchVars, textVars, retryVars,
                   detailVars, moreVars>>

\* calculate_project_economics(tender_amount, config)
Calculate(tender_amount) ==
    /\ econPc = "configured"
    /\ tenderAmount' = <<tender_amount>>
    /\ econOut' = CalculateProjectEconomics(tender_amount, config[1])
    /\ econPc' = "done"
    /\ UNCHANGED <<team, config, ctorError, parseVars, searchVars, textVars, retryVars,
                   detailVars, moreVars>>

EconInit ==
    /\ html = NoPage
    /\ cwdWritable = TRUE
    /\ ParseIdle
    /\ SearchIdle
    /\ EconIdle
    /\ TextIdle
    /\ RetryIdle
    /\ DetailIdle
    /\ MoreIdle

EconNext ==
    \/ \E percentages \in TeamChoices : NewTeam(percentages)
    \/ \E fields \in ConfigChoices : NewProjectConfig(fields)
    \/ \E tender_amount \in TenderAmounts : Calculate(tender_amount)

SpecEcon == EconInit /\ [][EconNext]_vars

(***************************************************************************)
(* SpecText: _parse_real_price and _parse_real_date applied to bounded     *)
(* texts.                                                                  *)
(***************************************************************************)
\* Price texts: what precedes the number, its integer part, its decimals and
\* what follows.  "R" stands for the rouble sign.
PriceTexts ==
    { pre \o body \o dec \o post :
        pre \in {"", "-", "Tsena: ", "12\t"},
        body \in {"", "0", "7", "999", "1 234 567", "1\t234\t567", "1.234.567",
                  "1000000000", "1000000001", "2000000000"},
        dec \in {"", ",89", ".5", ",00"},
        post \in {"", " R", ", 20%"} }

\* Date texts: the six formats, alone and inside a sentence, with one or two
\* digits, and dates and times that do not exist.
DateTexts ==
    { pre \o date \o post :
        pre \in {"", "Okonchanie podachi: "},
        date \in {"01.03.2025 23:59", "01.03.2025", "01/03/2025 23:59", "01/03/2025",
                  "2025-03-01 23:59", "2025-03-01", "1.3.2025", "1.3.2025 9:05",
                  "29.02.2024", "31.02.2025", "01.13.2025", "01.03.2025 25:00",
                  "01.03.25", "no date", ""},
        post \in {"", " (MSK)"} }

\* _parse_real_price(price_text)
ParsePrice(price_text) ==
    /\ textCall = <<>>
    /\ textCall' = <<[fn |-> "_parse_real_price", arg |-> price_text]>>
    /\ textOut' = ParseRealPrice(price_text)
    /\ UNCHANGED <<parseVars, searchVars, econVars, retryVars, detailVars, moreVars>>

\* _parse_real_date(date_text)
ParseDate(date_text) ==
    /\ textCall = <<>>
    /\ textCall' = <<[fn |-> "_parse_real_date", arg |-> date_text]>>
    /\ textOut' = ParseRealDate(date_text)
    /\ UNCHANGED <<parseVars, searchVars, econVars, retryVars, detailVars, moreVars>>

TextInit ==
    /\ html = NoPage
    /\ cwdWritable = TRUE
    /\ ParseIdle
    /\ SearchIdle
    /\ EconIdle
    /\ TextIdle
    /\ RetryIdle
    /\ DetailIdle
    /\ MoreIdle

TextNext ==
    \/ \E price_text \in PriceTexts : ParsePrice(price_text)
    \/ \E date_text \in DateTexts : ParseDate(date_text)

SpecText == TextInit /\ [][TextNext]_vars


(***************************************************************************)
(* SpecRetry: SearchService.search_with_auto_retry for criteria with       *)
(* limit 1.  Every attempt is a whole call of search_tenders (use_cache    *)
(* left at its default, True), with the parser's own retries inside.  The  *)
(* delays between attempts are below the grain of the clock and are        *)
(* recorded in retrySlept.                                                 *)
(***************************************************************************)
MaxAttempts == 3

\* What the portal answers with while search_with_auto_retry runs.
RetryResponses ==
    { resp \in Responses :
        \/ resp.error = "TimeoutError"
        \/ resp.status = 429
        \/ resp.status = 200 /\ resp.page.text = "nothing here"
        \/ resp.status = 200 /\ resp.page.text = "results"
                             /\ ParsedSearchPage[resp.page, TRUE].out.value # <<>> }

\* The exception raised after the last attempt failed.
WrapRetryError(max_attempts, e) ==
    Exc("Exception", "Failed to get data after " \o IntToStr(max_attempts)
                     \o " attempts: " \o e.msg)

\* One schedule for both kinds of attempt.
RetryDelayUnified(attempt_index, outcome) == (attempt_index + 1) * 2

\* The delay before the next attempt: (attempt + 1) * 2 seconds after an
\* empty list, (attempt + 1) * 3 after an exception.
RetryDelay(attempt_index, outcome) ==
    (attempt_index + 1) * (IF outcome.kind = "return" THEN 2 ELSE 3)

\* search_with_auto_retry is called.
RetryCall(limit, max_attempts) ==
    /\ retryPc = "idle"
    /\ svcPc = "idle"
    /\ retryArgs' = [limit |-> limit, max_attempts |-> max_attempts]
    /\ retryAttempt' = 0
    /\ retryOutcomes' = <<>>
    /\ retrySlept' = <<>>
    /\ retryGets' = <<>>
    /\ retryOut' = Return(<<>>)
    /\ retryPc' = IF max_attempts > 0 THEN "attempt" ELSE "done"
    /\ UNCHANGED <<parseVars, searchVars, econVars, textVars, detailVars, moreVars>>

\* results = await self.search_tenders(criteria)
RetryAttemptCall ==
    /\ retryPc = "attempt"
    /\ SvcCall(TRUE, retryArgs.limit)

\* search_tenders has answered the attempt: records end the call; an empty
\* list or an exception is followed by a sleep and the next attempt, or,
\* at the last attempt, by the return after the loop or by the raise in
\* the handler.
RetryAfterAttempt ==
    /\ retryPc = "attempt"
    /\ svcPc = "done"
    /\ retryOutcomes' = Append(retryOutcomes, svcOut)
    /\ retryGets' = Append(retryGets, [search |-> searchGets, home |-> homeGets])
    /\ IF svcOut.kind = "return" /\ svcOut.value # <<>>
       THEN /\ retryOut' = svcOut
            /\ retryPc' = "done"
            /\ UNCHANGED <<retryAttempt, retrySlept>>
       ELSE IF retryAttempt < retryArgs.max_attempts - 1
       THEN /\ retrySlept' = Append(retrySlept, RetryDelay(retryAttempt, svcOut))
            /\ retryAttempt' = retryAttempt + 1
            /\ UNCHANGED <<retryPc, retryOut>>
       ELSE /\ retryOut' = IF svcOut.kind = "return" THEN Return(<<>>)
                           ELSE Raise(WrapRetryError(retryArgs.max_attempts, svcOut.value))
            /\ retryPc' = "done"
            /\ UNCHANGED <<retryAttempt, retrySlept>>
    /\ SvcFrameGone
    /\ UNCHANGED <<now, cache, retryArgs, parseVars, econVars, textVars, detailVars, moreVars>>

\* The caller has its answer.
RetryReturn ==
    /\ retryPc = "done"
    /\ retryPc' = "idle"
    /\ retryArgs' = [limit |-> 0, max_attempts |-> 0]
    /\ retryAttempt' = 0
    /\ retryOutcomes' = <<>>
    /\ retrySlept' = <<>>
    /\ retryGets' = <<>>
    /\ retryOut' = Return(<<>>)
    /\ UNCHANGED <<parseVars, searchVars, econVars, textVars, detailVars, moreVars>>

RetryInit ==
    /\ html = NoPage
    /\ cwdWritable = TRUE
    /\ ParseIdle
    /\ SearchIdle
    /\ EconIdle
    /\ TextIdle
    /\ RetryIdle
    /\ DetailIdle
    /\ MoreIdle

RetryNext ==
    \/ \E max_attempts \in 0..MaxAttempts : RetryCall(1, max_attempts)
    \/ RetryAttemptCall
    \/ Warmup
    \/ \E resp \in RetryResponses : SearchGet(resp)
    \/ Backoff
    \/ \E reg \in RegNumbers : \E detail \in DetailOutcomes(reg) :
          /\ svcPc = "enrich"
          /\ results[Len(enhanced) + 1].reg_number = reg
          /\ Enrich(detail)
    \/ RetryAfterAttempt
    \/ RetryReturn
    \/ Tick

SpecRetry == RetryInit /\ [][RetryNext]_vars

\* Every request is answered or fails in the end, and the code takes its
\* next step when it can.
RetryFairness ==
    /\ WF_vars(RetryAttemptCall)
    /\ WF_vars(Warmup)
    /\ WF_vars(\E resp \in RetryResponses : SearchGet(resp))
    /\ WF_vars(Backoff)
    /\ WF_vars(\E reg \in RegNumbers : \E detail \in DetailOutcomes(reg) :
                  /\ svcPc = "enrich"
                  /\ results[Len(enhanced) + 1].reg_number = reg
                  /\ Enrich(detail))
    /\ WF_vars(RetryAfterAttempt)

FairSpecRetry == SpecRetry /\ RetryFairness

(***************************************************************************)
(* SpecDetails: SearchService.get_tender_details over                      *)
(* HttpTenderParser.parse_tender_details and MemoryTenderRepository.  A    *)
(* detail page is its text and what the title and price selectors find on  *)
(* it; the customer and the description are left out.                      *)
(***************************************************************************)
TenderFreshWindow == 1800

\* stop_after_attempt of the retry decorator of parse_tender_details.  The
\* decorator calls the function again only when an exception leaves it; the
\* body catches every exception that its requests raise and returns None,
\* and the session check before the body cannot fail inside "async with",
\* so that every call made here ends at the attempt it started with.
DetailStopAfterAttempt == 3

DetailUrlTemplates ==
    << "/epz/order/notice/ea44/view/common-info.html",
       "/epz/order/notice/ok44/view/common-info.html",
       "/epz/order/notice/oa44/view/common-info.html",
       "/epz/order/notice/ok504/view/common-info.html" >>

\* The phrase of a detail page, in transliteration.
DetailMarker == "obshchie svedeniya"

NoDetailPage == [text |-> "", title |-> <<>>, price_text |-> <<>>]

\* The page of the tender reg, with a capital in the phrase.
DetailPageOf(reg) ==
    [text |-> "Zakupka #" \o reg \o ". Obshchie svedeniya o zakupke",
     title |-> <<"  Postavka   bumagi ">>,
     price_text |-> <<"1 200 000,50 R">>]

\* A page that names the tender without the phrase.
ListingPageOf(reg) ==
    [text |-> "Rezultaty poiska: " \o reg, title |-> <<"Poisk">>, price_text |-> <<>>]

\* The page of another tender.
OtherTenderOf(reg) == CHOOSE other \in RegNumbers : other # reg

\* What a GET of a detail URL for the tender reg can be answered with.
DetailResponses(reg) ==
    { [status |-> 200, page |-> pg, error |-> None] :
         pg \in {DetailPageOf(reg), ListingPageOf(reg), DetailPageOf(OtherTenderOf(reg))} }
    \cup { [status |-> 404, page |-> NoDetailPage, error |-> None],
           [status |-> 500, page |-> DetailPageOf(reg), error |-> None],
           [status |-> 0, page |-> NoDetailPage, error |-> "TimeoutError"] }

\* The condition without the phrase.
DetailPageAcceptedByNumberOnly(resp, reg_number) ==
    /\ resp.status = 200
    /\ Contains(resp.page.text, reg_number)

\* response.status == 200 and reg_number in html and the phrase in
\* html.lower()
DetailPageAccepted(resp, reg_number) ==
    /\ resp.status = 200
    /\ Contains(resp.page.text, reg_number)
    /\ Contains(Lower(resp.page.text), DetailMarker)

\* _parse_real_tender_details: the number asked for, and the title and the
\* price when their selectors find an element.
ParseRealTenderDetails(page, reg_number) ==
    Update(Update([reg_number |-> reg_number],
                  IF page.title = <<>> THEN <<>>
                  ELSE [title |-> CleanTitle(Strip(page.title[1]))]),
           IF page.price_text = <<>> THEN <<>>
           ELSE [initial_price |-> ParseRealPrice(Strip(page.price_text[1]))])

\* _create_tender_from_real_data at time t.
CreateTenderFromRealData(data, t) ==
    [reg_number |-> data.reg_number,
     title |-> IF "title" \in DOMAIN data THEN data.title ELSE "",
     initial_price |-> IF "initial_price" \in DOMAIN data THEN data.initial_price
                       ELSE Num(0, ""),
     updated_at |-> t]

\* The freshness test with an age of the whole window still fresh.
IsTenderFreshInclusive(tender, t) == t - tender.updated_at <= TenderFreshWindow

\* _is_tender_fresh at time t
IsTenderFresh(tender, t) == t - tender.updated_at < TenderFreshWindow

\* get_tender_details is called: a fresh stored record is returned unless a
\* refresh is forced; otherwise the parser's session is opened.
DetCall(reg_number, force_refresh) ==
    /\ detPc = "idle"
    /\ svcPc = "idle"
    /\ retryPc = "idle"
    /\ detArgs' = [reg_number |-> reg_number, force_refresh |-> force_refresh]
    /\ IF /\ ~force_refresh
          /\ repository[reg_number] # <<>>
          /\ IsTenderFresh(repository[reg_number][1], now)
       THEN /\ detOut' = Return(repository[reg_number])
            /\ detPc' = "done"
            /\ UNCHANGED <<session, detAttempt>>
       ELSE /\ session' = "open"
            /\ detAttempt' = 1
            /\ detPc' = "fetch"
            /\ UNCHANGED detOut
    /\ detRequests' = <<>>
    /\ detResponses' = <<>>
    /\ detailsOut' = <<>>
    /\ UNCHANGED <<now, cache, svcPc, svcArgs, attempt, lastResponse, searchGets, homeGets,
                   results, enhanced, svcOut, repository, parseVars, econVars, textVars,
                   retryVars, moreVars>>

\* One turn of the loop over the URL templates of parse_tender_details: the
\* next template is requested on the session and answered by resp.  An
\* exception of the transport is caught and ends the function with None.
DetailGet(resp) ==
    /\ detPc = "fetch"
    /\ detRequests' = Append(detRequests,
                             [url |-> DetailUrlTemplates[Len(detRequests) + 1],
                              session |-> session])
    /\ detResponses' = Append(detResponses, resp)
    /\ IF resp.error # None
       THEN detailsOut' = <<>> /\ detPc' = "fetched"
       ELSE IF DetailPageAccepted(resp, detArgs.reg_number)
       THEN /\ detailsOut' = <<ParseRealTenderDetails(resp.page, detArgs.reg_number)>>
            /\ detPc' = "fetched"
       ELSE IF Len(detRequests) + 1 = Len(DetailUrlTemplates)
       THEN detailsOut' = <<>> /\ detPc' = "fetched"
       ELSE UNCHANGED <<detailsOut, detPc>>
    /\ UNCHANGED <<repository, detArgs, detAttempt, detOut, parseVars, searchVars, econVars,
                   textVars, retryVars, moreVars>>

\* The except clause of SearchService.get_tender_details.
WrapDetailsError(e) ==
    Exc("Exception", "Failed to get the tender details from zakupki.gov.ru: " \o e.msg)

\* What a parser can raise in place of fetching.
ParserErrors == {Exc("RuntimeError", "Session not initialized"), Exc("OSError", "")}

\* The parser raises e inside "async with self.parser" before any request
\* (an injected parser, or one whose session cannot be used): the session
\* is closed and the service raises the wrapped exception.
DetParserRaises(e) ==
    /\ detPc = "fetch"
    /\ detRequests = <<>>
    /\ session' = "closed"
    /\ detOut' = Raise(WrapDetailsError(e))
    /\ detPc' = "done"
    /\ UNCHANGED <<now, cache, svcPc, svcArgs, attempt, lastResponse, searchGets, homeGets,
                   results, enhanced, svcOut, repository, detArgs, detAttempt, detRequests,
                   detResponses, detailsOut, parseVars, econVars, textVars, retryVars,
                   moreVars>>

\* A save that drops the stored record when the fetch gave nothing.
DetSaveDroppingOnMiss ==
    /\ detPc = "fetched"
    /\ session' = "closed"
    /\ IF detailsOut # <<>>
       THEN /\ repository' =
                 [repository EXCEPT ![detailsOut[1].reg_number] =
                     <<CreateTenderFromRealData(detailsOut[1], now)>>]
            /\ detOut' = Return(<<CreateTenderFromRealData(detailsOut[1], now)>>)
       ELSE /\ detOut' = Return(<<>>)
            /\ repository' = [repository EXCEPT ![detArgs.reg_number] = <<>>]
    /\ detPc' = "done"
    /\ UNCHANGED <<now, cache, svcPc, svcArgs, attempt, lastResponse, searchGets, homeGets,
                   results, enhanced, svcOut, detArgs, detAttempt, detRequests, detResponses,
                   detailsOut, parseVars, econVars, textVars, retryVars, moreVars>>

\* The session is closed; the data, if any, become a Tender that is saved
\* under its number and returned.
DetSave ==
    /\ detPc = "fetched"
    /\ session' = "closed"
    /\ IF detailsOut # <<>>
       THEN /\ repository' =
                 [repository EXCEPT ![detailsOut[1].reg_number] =
                     <<CreateTenderFromRealData(detailsOut[1], now)>>]
            /\ detOut' = Return(<<CreateTenderFromRealData(detailsOut[1], now)>>)
       ELSE /\ detOut' = Return(<<>>)
            /\ UNCHANGED repository
    /\ detPc' = "done"
    /\ UNCHANGED <<now, cache, svcPc, svcArgs, attempt, lastResponse, searchGets, homeGets,
                   results, enhanced, svcOut, detArgs, detAttempt, detRequests, detResponses,
                   detailsOut, parseVars, econVars, textVars, retryVars, moreVars>>

\* The caller has its answer.
DetReturn ==
    /\ detPc = "done"
    /\ detPc' = "idle"
    /\ detArgs' = [reg_number |-> "", force_refresh |-> FALSE]
    /\ session' = "none"
    /\ detAttempt' = 0
    /\ detRequests' = <<>>
    /\ detResponses' = <<>>
    /\ detailsOut' = <<>>
    /\ detOut' = Return(<<>>)
    /\ UNCHANGED <<now, cache, svcPc, svcArgs, attempt, lastResponse, searchGets, homeGets,
                   results, enhanced, svcOut, repository, parseVars, econVars, textVars,
                   retryVars, moreVars>>

DetailsInit ==
    /\ html = NoPage
    /\ cwdWritable = TRUE
    /\ ParseIdle
    /\ SearchIdle
    /\ EconIdle
    /\ TextIdle
    /\ RetryIdle
    /\ DetailIdle
    /\ MoreIdle

DetailsNext ==
    \/ \E reg_number \in RegNumbers, force_refresh \in BOOLEAN :
          DetCall(reg_number, force_refresh)
    \/ \E resp \in DetailResponses(detArgs.reg_number) : DetailGet(resp)
    \/ \E e \in ParserErrors : DetParserRaises(e)
    \/ DetSave
    \/ DetReturn
    \/ Tick

SpecDetails == DetailsInit /\ [][DetailsNext]_vars

(***************************************************************************)
(* SpecCache: the operations of SimpleCache called in any order while time *)
(* passes.  The keys are those of the search cache; the values stored are  *)
(* not empty, so that the <<>> of CacheGet is the None of an absent key.   *)
(***************************************************************************)
DefaultTtl == 3600

CacheValues == {<<"first">>, <<"second">>}

CacheTtls == {0, 900, SearchResultsTtl, DefaultTtl}

\* What no operation of the cache touches.
CacheFrame ==
    UNCHANGED <<now, svcPc, svcArgs, session, attempt, lastResponse, searchGets, homeGets,
                results, enhanced, svcOut, parseVars, econVars, textVars, retryVars,
                detailVars, keyVars, dashVars, sessVars>>

\* await cache.get(key)
GetCall(key) ==
    /\ cacheCall' = <<[op |-> "get", key |-> key, at |-> now]>>
    /\ cacheOut' = IF CacheGet(cache, key, now).value = <<>> THEN <<>>
                   ELSE <<CacheGet(cache, key, now).value>>
    /\ cache' = CacheGet(cache, key, now).cache
    /\ UNCHANGED lastSet
    /\ CacheFrame

\* await cache.set(key, value, ttl)
SetCall(key, value, ttl) ==
    /\ cacheCall' = <<[op |-> "set", key |-> key, at |-> now]>>
    /\ cache' = CacheSet(cache, key, value, ttl, now)
    /\ lastSet' = [lastSet EXCEPT ![key] = <<[value |-> value, at |-> now, ttl |-> ttl]>>]
    /\ UNCHANGED cacheOut
    /\ CacheFrame

\* await cache.delete(key)
DeleteCall(key) ==
    /\ cacheCall' = <<[op |-> "delete", key |-> key, at |-> now]>>
    /\ cache' = CacheDelete(cache, key)
    /\ lastSet' = [lastSet EXCEPT ![key] = <<>>]
    /\ UNCHANGED cacheOut
    /\ CacheFrame

\* await cache.clear()
ClearCall ==
    /\ cacheCall' = <<[op |-> "clear", key |-> 0, at |-> now]>>
    /\ cache' = CacheClear(cache)
    /\ lastSet' = [k \in DOMAIN lastSet |-> <<>>]
    /\ UNCHANGED cacheOut
    /\ CacheFrame

CacheInit ==
    /\ html = NoPage
    /\ cwdWritable = TRUE
    /\ ParseIdle
    /\ SearchIdle
    /\ EconIdle
    /\ TextIdle
    /\ RetryIdle
    /\ DetailIdle
    /\ MoreIdle

CacheNext ==
    \/ \E key \in 1..MaxLimit : GetCall(key)
    \/ \E key \in 1..MaxLimit, value \in CacheValues, ttl \in CacheTtls :
          SetCall(key, value, ttl)
    \/ \E key \in 1..MaxLimit : DeleteCall(key)
    \/ ClearCall
    \/ Tick

SpecCache == CacheInit /\ [][CacheNext]_vars

(***************************************************************************)
(* SpecKey: SearchService._get_cache_key applied to pairs of               *)
(* SearchCriteria.  The filters of a criteria are the items of the dict in *)
(* insertion order, with distinct keys.                                    *)
(***************************************************************************)
\* The rank of a character in the order of the code points used here.
Ord(ch) ==
    CHOOSE i \in 1..Len(" '(),0123456789:A_[]abcdefghijklmnopqrstuvwxyz") :
        CharAt(" '(),0123456789:A_[]abcdefghijklmnopqrstuvwxyz", i) = ch

\* a < b for strings, as Python compares them.
RECURSIVE StrLess(_, _)
StrLess(a, b) ==
    IF b = "" THEN FALSE
    ELSE IF a = "" THEN TRUE
    ELSE IF CharAt(a, 1) # CharAt(b, 1) THEN Ord(CharAt(a, 1)) < Ord(CharAt(b, 1))
    ELSE StrLess(SubSeq(a, 2, Len(a)), SubSeq(b, 2, Len(b)))

\* sorted(filters.items()): the keys are distinct, so they decide the order.
RECURSIVE SortedItems(_)
SortedItems(items) ==
    IF items = <<>> THEN <<>>
    ELSE LET first == CHOOSE i \in 1..Len(items) :
                          \A j \in 1..Len(items) : j = i \/ StrLess(items[i][1], items[j][1])
         IN  <<items[first]>>
             \o SortedItems([k \in 1..(Len(items) - 1) |->
                                items[IF k < first THEN k ELSE k + 1]])

\* str() of a list of pairs of strings.
RECURSIVE StrOfItems(_)
StrOfItems(items) ==
    IF items = <<>> THEN ""
    ELSE "('" \o items[1][1] \o "', '" \o items[1][2] \o "')"
         \o (IF Len(items) > 1 THEN ", " ELSE "") \o StrOfItems(Tail(items))

\* key_data of _get_cache_key: the query goes in as it was given.
KeyData(criteria) ==
    "REAL:" \o criteria.query \o "_" \o IntToStr(criteria.limit) \o "_["
    \o StrOfItems(SortedItems(criteria.filters)) \o "]"

\* hashlib.md5(s.encode()).hexdigest() of the key strings of this model.
Md5Table ==
    <<
       <<"REAL: asfalt _10_[('region', '77'), ('status', 'active')]", "bdd354deef23224cfabedd1d4756c139">>,
       <<"REAL: asfalt _10_[('region', '77')]", "b563f7b319a513c701c5326705922485">>,
       <<"REAL: asfalt _10_[('region', '78')]", "812d6f792e46103ff5b7806d95cbe8f0">>,
       <<"REAL: asfalt _10_[]", "852d3dc1c6fbc013432e913bf711a2f9">>,
       <<"REAL: asfalt _20_[('region', '77'), ('status', 'active')]", "f23ffcc82234e517aa84287bf90eb539">>,
       <<"REAL: asfalt _20_[('region', '77')]", "b98211f8e9d491f6bd5ccea3e5eb6c0c">>,
       <<"REAL: asfalt _20_[('region', '78')]", "5c5bf96447bec1b9ac445e79cbdd50e1">>,
       <<"REAL: asfalt _20_[]", "f1ce4e8af78205101d3d4424edacccfa">>,
       <<"REAL:asfalt_10_[('region', '77'), ('status', 'active')]", "c9bf6f512da573a0c43ebdaa3db17523">>,
       <<"REAL:asfalt_10_[('region', '77')]", "ecbf45ad2bd79859e1025c43d4b3eca0">>,
       <<"REAL:asfalt_10_[('region', '78')]", "ef0c80d5089cd346dfd161679f36171a">>,
       <<"REAL:asfalt_10_[]", "4da3da97713ddd80602d33d1d934fe44">>,
       <<"REAL:asfalt_20_[('region', '77'), ('status', 'active')]", "cfc764502a5f7527134b859bb3df54ab">>,
       <<"REAL:asfalt_20_[('region', '77')]", "a82aba8cb478ab954b2675a50222681a">>,
       <<"REAL:asfalt_20_[('region', '78')]", "bd80852be1927b1dc7da8883f85409e6">>,
       <<"REAL:asfalt_20_[]", "fae20ff80afa3022f6ed4b18a361e47a">>,
       <<"REAL:beton_10_[('region', '77'), ('status', 'active')]", "aaa34b1eec328efe686518f04a36c78c">>,
       <<"REAL:beton_10_[('region', '77')]", "8845f3934126461dbccb0c7b29f136e7">>,
       <<"REAL:beton_10_[('region', '78')]", "fe52923e406f975610fa48ed817cfbab">>,
       <<"REAL:beton_10_[]", "540f33e8c4c9fdbd9bdcb3be418253ac">>,
       <<"REAL:beton_20_[('region', '77'), ('status', 'active')]", "985e42d67bcd757d09719c7bd1e1ceaa">>,
       <<"REAL:beton_20_[('region', '77')]", "0dc7d0d092d82bb1240fd1924e44c970">>,
       <<"REAL:beton_20_[('region', '78')]", "5ee2a3ab81e8cc8fcb6b57005de26fc3">>,
       <<"REAL:beton_20_[]", "c6713ea303ef3de80eb934afaa1bd1e9">>
    >>

Md5Hex(s) == Md5Table[CHOOSE i \in 1..Len(Md5Table) : Md5Table[i][1] = s][2]

\* _get_cache_key
CacheKeyOf(criteria) == "real_search:" \o Md5Hex(KeyData(criteria))

\* The criteria whose keys are asked for: a query with and without blanks
\* around it and another query, two limits, and filters given in either
\* order or with another value.
KeyCriteria ==
    { [query |-> q, limit |-> l, filters |-> f] :
        q \in {"asfalt", " asfalt ", "beton"},
        l \in {10, 20},
        f \in { <<>>,
                << <<"region", "77">> >>,
                << <<"region", "77">>, <<"status", "active">> >>,
                << <<"status", "active">>, <<"region", "77">> >>,
                << <<"region", "78">> >> } }

\* The keys of two criteria are computed.
GetCacheKeys(a, b) ==
    /\ keyCall = <<>>
    /\ keyCall' = <<[a |-> a, b |-> b]>>
    /\ keyOut' = <<[a |-> [data |-> KeyData(a), key |-> CacheKeyOf(a)],
                    b |-> [data |-> KeyData(b), key |-> CacheKeyOf(b)]]>>
    /\ UNCHANGED <<parseVars, searchVars, econVars, textVars, retryVars, detailVars,
                   cacheVars, dashVars, sessVars>>

KeyInit ==
    /\ html = NoPage
    /\ cwdWritable = TRUE
    /\ ParseIdle
    /\ SearchIdle
    /\ EconIdle
    /\ TextIdle
    /\ RetryIdle
    /\ DetailIdle
    /\ MoreIdle

KeyNext == \E a \in KeyCriteria, b \in KeyCriteria : GetCacheKeys(a, b)

SpecKey == KeyInit /\ [][KeyNext]_vars

(***************************************************************************)
(* SpecInjected: SearchService.search_tenders over an injected parser      *)
(* that returns any list of raw records: records with every field, a       *)
(* record without the reg_number key, one with an empty number, and        *)
(* something that is not a dict.                                           *)
(***************************************************************************)
MaxRaw == 3

RawOf(reg) == ParseRealTenderCard(WellFormed(reg))[1]

RawRecords ==
    { RawOf(RegA),
      RawOf(RegB),
      [title |-> "Remont dorogi", initial_price |-> Num(100, "")],
      Update(RawOf(RegB), [reg_number |-> ""]),
      NotADict }

RECURSIVE RawLists(_)
RawLists(n) ==
    IF n = 0 THEN {<<>>}
    ELSE RawLists(n - 1)
         \cup {Append(l, r) : l \in {m \in RawLists(n - 1) : Len(m) = n - 1}, r \in RawRecords}

\* The injected parser returns raw_results: an empty list is returned at
\* once; otherwise the records are converted, cached if asked for and not
\* empty, and returned.
InjectedParserReturns(raw_results) ==
    /\ svcPc = "warmup"
    /\ results' = raw_results
    /\ session' = "closed"
    /\ svcOut' = Return(ConvertRawResults(raw_results))
    /\ cache' = IF svcArgs.use_cache /\ ConvertRawResults(raw_results) # <<>>
                THEN CacheSet(cache, GetCacheKey(svcArgs), ConvertRawResults(raw_results),
                              SearchResultsTtl, now)
                ELSE cache
    /\ svcPc' = "done"
    /\ UNCHANGED <<now, svcArgs, attempt, lastResponse, searchGets, homeGets, enhanced,
                   parseVars, econVars, textVars, retryVars, detailVars, moreVars>>

InjectedInit ==
    /\ html = NoPage
    /\ cwdWritable = TRUE
    /\ ParseIdle
    /\ SearchIdle
    /\ EconIdle
    /\ TextIdle
    /\ RetryIdle
    /\ DetailIdle
    /\ MoreIdle

InjectedNext ==
    \/ \E use_cache \in BOOLEAN : SvcCall(use_cache, 1)
    \/ \E raw_results \in RawLists(MaxRaw) : InjectedParserReturns(raw_results)
    \/ SvcReturn

SpecInjected == InjectedInit /\ [][InjectedNext]_vars

(***************************************************************************)
(* SpecDashboard: the way of a price through the dashboard, from the raw   *)
(* records of a real search to the amounts handed to the economics         *)
(* calculation: SearchService.search_tenders, SearchResult.to_dict,        *)
(* the selection boxes and the calculate button of                         *)
(* TenderAnalyzerApp._render_economics_calculator.                         *)
(***************************************************************************)
\* SearchResult.to_dict (deadline and parsed_at left out): the price is
\* under the key "price".
ToDict(search_result) ==
    [reg_number |-> search_result.reg_number,
     title |-> search_result.title,
     customer |-> search_result.customer,
     price |-> search_result.price,
     tender_type |-> search_result.tender_type,
     status |-> search_result.status,
     source_url |-> search_result.source_url]

RECURSIVE PowerOfTen(_)
PowerOfTen(n) == IF n = 0 THEN 1 ELSE 10 * PowerOfTen(n - 1)

\* Decimal(s) of the str() of a float or an int: digits, and a point with
\* digits after it.
DecimalOfStr(s) ==
    LET point == CHOOSE i \in 1..(Len(s) + 1) :
                     /\ i = Len(s) + 1 \/ CharAt(s, i) = "."
                     /\ \A j \in 1..(i - 1) : CharAt(s, j) # "."
        frac == SubSeq(s, point + 1, Len(s))
    IN  Rat(ToInt(SubSeq(s, 1, point - 1)) * PowerOfTen(Len(frac)) + ToInt(frac),
            PowerOfTen(Len(frac)))

\* Decimal(str(tender.get('initial_price', 0)))
AmountOfTender(tender) == DecimalOfStr(Get(tender, "initial_price", "0"))

\* The raw records a real search can give: two tenders with a price each.
PricedRecords ==
    { Update(RawOf(reg), [initial_price |-> price]) :
        reg \in RegNumbers, price \in {Num(1200000, "5"), Num(750000, "")} }

\* The lists of raw records with distinct numbers.
PricedLists ==
    { <<r>> : r \in PricedRecords }
    \cup { <<r1, r2>> : r1 \in {r \in PricedRecords : r.reg_number = RegA},
                        r2 \in {r \in PricedRecords : r.reg_number = RegB} }

\* The frame of the dashboard's actions.
DashFrame ==
    UNCHANGED <<parseVars, searchVars, econVars, textVars, retryVars, detailVars,
                cacheVars, keyVars, sessVars>>

\* _perform_search with the real parser: the records found are converted
\* by the service and shown as dicts.
PerformSearch(raw_results) ==
    /\ rawShown' = raw_results
    /\ searchResults' =
           LET dicts == [i \in 1..Len(ConvertRawResults(raw_results)) |->
                              ToDict(ConvertRawResults(raw_results)[i])]
           IN  IF dicts # <<>> THEN dicts ELSE searchResults
    /\ UNCHANGED <<selectedTenders, econInput>>
    /\ DashFrame

\* The selection boxes of the numbers are ticked: the tenders shown with
\* these numbers become the selected tenders.
SelectTenders(selected_numbers) ==
    /\ searchResults # <<>>
    /\ selected_numbers # {}
    /\ selected_numbers \subseteq {searchResults[i].reg_number : i \in 1..Len(searchResults)}
    /\ selectedTenders' = SelectSeq(searchResults,
                                    LAMBDA t : t.reg_number \in selected_numbers)
    /\ UNCHANGED <<rawShown, searchResults, econInput>>
    /\ DashFrame

\* The calculate button for the selected tender of index idx: the amount of
\* the tender goes into config.total_amount and into
\* calculate_project_economics.
CalculateFor(idx) ==
    /\ idx \in 1..Len(selectedTenders)
    /\ econInput' = <<[reg_number |-> selectedTenders[idx].reg_number,
                       tender_amount |-> AmountOfTender(selectedTenders[idx]),
                       total_amount |-> AmountOfTender(selectedTenders[idx])]>>
    /\ UNCHANGED <<rawShown, searchResults, selectedTenders>>
    /\ DashFrame

DashboardInit ==
    /\ html = NoPage
    /\ cwdWritable = TRUE
    /\ ParseIdle
    /\ SearchIdle
    /\ EconIdle
    /\ TextIdle
    /\ RetryIdle
    /\ DetailIdle
    /\ MoreIdle

DashboardNext ==
    \/ /\ econInput = <<>>
       /\ \E raw_results \in PricedLists : PerformSearch(raw_results)
    \/ \E selected_numbers \in SUBSET RegNumbers : SelectTenders(selected_numbers)
    \/ \E idx \in 1..MaxLimit : CalculateFor(idx)

SpecDashboard == DashboardInit /\ [][DashboardNext]_vars

(***************************************************************************)
(* SpecSessions: the HTTP sessions of the one parser that a SearchService  *)
(* holds.  Every search_tenders or get_tender_details call of the service  *)
(* runs "async with self.parser", so HttpTenderParser.__aenter__ and      *)
(* __aexit__ work on the single field parser.session.  A step is what a    *)
(* call does between two of its await points.                              *)
(***************************************************************************)
\* The sessions created in one behaviour, and the GETs of one call.
MaxSessions == 3
MaxRequests == 3

CallKinds == {"search_tenders", "get_tender_details"}

\* __aenter__: a new ClientSession; the parser's field is set to it.
AEnter(all_sessions, caller) ==
    Append(all_sessions, [opened_by |-> caller, state |-> "open", closed_by |-> 0])

\* __aexit__ that closes nothing.
AExitLeavingOpen(all_sessions, current, caller) == all_sessions

\* __aexit__: the session in the parser's field at this moment is closed;
\* closing a closed session changes nothing.
AExit(all_sessions, current, caller) ==
    IF current # 0 /\ all_sessions[current].state = "open"
    THEN [all_sessions EXCEPT ![current] = [@ EXCEPT !.state = "closed",
                                                      !.closed_by = caller]]
    ELSE all_sessions

\* self.session.get(...): the GET goes out on the session in the parser's
\* field at this moment.
IssueRequest(all_sessions, current, caller) ==
    <<[caller |-> caller, session |-> current, state |-> all_sessions[current].state]>>

SessFrame ==
    UNCHANGED <<parseVars, searchVars, econVars, textVars, retryVars, detailVars,
                cacheVars, keyVars, dashVars>>

InProgress(c) == calls[c].pc = "awaiting"

\* A call begins: async with self.parser, then the parser's method up to
\* its first await, which is the first GET (the home page for a search, the
\* first template for details).
CallEnter(c, kind) ==
    /\ ~InProgress(c)
    /\ Len(sessions) < MaxSessions
    /\ serialized => \A other \in Callers : ~InProgress(other)
    /\ sessions' = AEnter(sessions, c)
    /\ parserSession' = Len(sessions) + 1
    /\ calls' = [calls EXCEPT ![c] = [pc |-> "awaiting", kind |-> kind,
                                      session |-> Len(sessions) + 1,
                                      requests |-> 1, outcome |-> "None"]]
    /\ lastRequest' = IssueRequest(sessions', parserSession', c)
    /\ UNCHANGED serialized
    /\ SessFrame

\* The call resumes after an await and issues its next GET.
CallRequest(c) ==
    /\ InProgress(c)
    /\ calls[c].requests < MaxRequests
    /\ lastRequest' = IssueRequest(sessions, parserSession, c)
    /\ calls' = [calls EXCEPT ![c].requests = @ + 1]
    /\ UNCHANGED <<serialized, sessions, parserSession>>
    /\ SessFrame

\* The parser's method returns or raises: __aexit__ runs and the service's
\* call ends.  The parser's field keeps its value.
CallExit(c, outcome) ==
    /\ InProgress(c)
    /\ sessions' = AExit(sessions, parserSession, c)
    /\ calls' = [calls EXCEPT ![c].pc = "returned", ![c].outcome = outcome]
    /\ UNCHANGED <<serialized, parserSession, lastRequest>>
    /\ SessFrame

SessionsInit ==
    /\ html = NoPage
    /\ cwdWritable = TRUE
    /\ ParseIdle
    /\ SearchIdle
    /\ EconIdle
    /\ TextIdle
    /\ RetryIdle
    /\ DetailIdle
    /\ CacheOpsIdle
    /\ KeyIdle
    /\ DashIdle
    /\ serialized \in BOOLEAN
    /\ sessions = <<>>
    /\ parserSession = 0
    /\ calls = [c \in Callers |-> NoCall]
    /\ lastRequest = <<>>

SessionsNext ==
    \/ \E c \in Callers, kind \in CallKinds : CallEnter(c, kind)
    \/ \E c \in Callers : CallRequest(c)
    \/ \E c \in Callers, outcome \in {"return", "raise"} : CallExit(c, outcome)

SpecSessions == SessionsInit /\ [][SessionsNext]_vars
(***************************************************************************)
(* Properties.                                                             *)
(***************************************************************************)
\* The outcomes of the search GET that the parser classifies.
ClassifiedKinds == {"captcha", "blocked", "rate-limited", "site-error"}

\* What the message of each classified failure says.
MarkerOf(kind) ==
    CASE kind = "captcha" -> CaptchaMessage
      [] kind = "blocked" -> BlockedMessage
      [] kind = "rate-limited" -> RateLimitedMessage
      [] kind = "site-error" -> "Site error: HTTP "

\* C1: once the portal has answered the search GET of a call with a
\* classified outcome (429, 403, another non-200 status, or 200 with a
\* captcha and no results), that call issues no further search GET: the
\* retry is for transient failures only.
NoSearchGetAfterClassifiedOutcome ==
    [][(lastResponse \in ClassifiedKinds) => (searchGets' <= searchGets)]_vars

\* C2: a call of SearchService.search_tenders that ends on a classified
\* failure raises to its caller an error whose message tells which of the
\* four kinds occurred.
ClassifiedFailureIdentifiesItsKind ==
    (svcPc = "done" /\ lastResponse \in ClassifiedKinds)
        => /\ svcOut.kind = "raise"
           /\ Contains(svcOut.value.msg, MarkerOf(lastResponse))

\* The registration number extracted from a card is something to go on.
HasRegNumber(card) ==
    ExtractRealRegNumber(card) # <<>> /\ ExtractRealRegNumber(card)[1] # ""

\* C3: every card of the parsed page whose registration number can be
\* extracted yields a record from _parse_real_tender_card, whichever of the
\* other fields cannot be extracted.
NumberedCardYieldsRecord ==
    parsePc = "done"
        => \A i \in 1..Len(TenderCards(html)) :
              HasRegNumber(TenderCards(html)[i])
                  => ParseRealTenderCard(TenderCards(html)[i]) # <<>>

\* The registration numbers of the cards that carry one, in page order.
RECURSIVE RegNumbersOf(_)
RegNumbersOf(cards) ==
    IF cards = <<>> THEN <<>>
    ELSE (IF HasRegNumber(Head(cards)) THEN ExtractRealRegNumber(Head(cards)) ELSE <<>>)
         \o RegNumbersOf(Tail(cards))

\* C4: _parse_real_search_results returns exactly one record per card that
\* carries a registration number, in page order, and drops exactly the cards
\* without one.
OneRecordPerNumberedCard ==
    (parsePc = "done" /\ parseOut.kind = "return")
        => [i \in 1..Len(parseOut.value) |-> parseOut.value[i].reg_number]
               = RegNumbersOf(TenderCards(html))

\* C5: _parse_real_search_results never throws: without a container the raw
\* page is dumped and the list is empty, and without cards the list is empty.
ParseNeverThrows ==
    parsePc = "done"
        => /\ parseOut.kind = "return"
           /\ FirstAccepted(html.containers, Found) = <<>>
                 => debugDump = html.text /\ parseOut.value = <<>>
           /\ TenderCards(html) = <<>> => parseOut.value = <<>>

\* The sum of percentages written in hundredths, as a whole number of
\* hundredths.
RECURSIVE HundredthsSum(_)
HundredthsSum(hundredths) ==
    IF hundredths = <<>> THEN 0 ELSE Head(hundredths) + HundredthsSum(Tail(hundredths))

CalculateAlwaysReturns ==
    econPc = "done" => econOut.kind = "return"

\* C8: in every result, total_costs = team_costs + overhead_costs + tax_costs,
\* net_profit = gross_profit - tax_costs, team_costs is the sum of the
\* breakdown and total_revenue is the tender amount.
ResultIdentitiesHold ==
    (econPc = "done" /\ econOut.kind = "return")
        => /\ econOut.value.total_costs
                 = RAdd(RAdd(econOut.value.team_costs, econOut.value.overhead_costs),
                        econOut.value.tax_costs)
           /\ econOut.value.net_profit
                 = RSub(econOut.value.gross_profit, econOut.value.tax_costs)
           /\ econOut.value.team_costs = RSum(econOut.value.team_breakdown)
           /\ econOut.value.total_revenue = tenderAmount[1]

\* C8 happens: a result with a team, overhead and taxes that are not zero.
ResultWithAllCosts ==
    /\ econPc = "done"
    /\ econOut.kind = "return"
    /\ Len(econOut.value.team_breakdown) >= 2
    /\ econOut.value.team_costs.n > 0
    /\ econOut.value.overhead_costs.n > 0
    /\ econOut.value.tax_costs.n > 0
    /\ Len(config[1].taxes) = 2

\* The configuration and the tender amount of the worked example: 5,000,000
\* for both, one role of 50%, overhead 100,000 and one tax of 20%.
IsWorkedExample ==
    /\ tenderAmount = <<Rat(5000000, 1)>>
    /\ config # <<>>
    /\ config[1].total_amount = Rat(5000000, 1)
    /\ Percentages(config[1].team) = <<50>>
    /\ config[1].overhead_costs = <<Rat(100000, 1)>>
    /\ config[1].taxes = <<20>>

\* C9: each role costs config.total_amount times its percentage, whatever
\* the tender amount; gross profit is the tender amount less team and
\* overhead costs; the tax cost is the sum over the taxes of gross profit
\* times the rate; and the worked example gives team 2,500,000, gross
\* 2,400,000, tax 480,000 and net 1,920,000.
CostsFollowTheFormulas ==
    (econPc = "done" /\ econOut.kind = "return")
        => /\ Len(econOut.value.team_breakdown) = Len(config[1].team)
           /\ \A i \in 1..Len(config[1].team) :
                 econOut.value.team_breakdown[i]
                     = RMul(config[1].total_amount, Rat(config[1].team[i].percentage, 100))
           /\ econOut.value.gross_profit
                 = RSub(RSub(tenderAmount[1], econOut.value.team_costs),
                        RSum(config[1].overhead_costs))
           /\ econOut.value.tax_costs
                 = RSum([i \in 1..Len(config[1].taxes) |->
                            RMul(econOut.value.gross_profit, Rat(config[1].taxes[i], 100))])
           /\ IsWorkedExample
                 => /\ econOut.value.team_costs = Rat(2500000, 1)
                    /\ econOut.value.gross_profit = Rat(2400000, 1)
                    /\ econOut.value.tax_costs = Rat(480000, 1)
                    /\ econOut.value.net_profit = Rat(1920000, 1)

\* C9 happens: the worked example was calculated.
WorkedExampleCalculated ==
    econPc = "done" /\ econOut.kind = "return" /\ IsWorkedExample

\* C10: the profit margin is net profit / tender amount * 100, and 0 when
\* the tender amount is not positive; the ROI is net profit / total costs *
\* 100, and 0 when the total costs are not positive; no division is made by
\* a number that is not positive.
RatiosGuardTheirDenominators ==
    (econPc = "done" /\ econOut.kind = "return")
        => /\ econOut.value.profit_margin
                 = IF tenderAmount[1].n <= 0 THEN Rat(0, 1)
                   ELSE RMul(RDiv(econOut.value.net_profit, tenderAmount[1]), Rat(100, 1))
           /\ econOut.value.roi
                 = IF econOut.value.total_costs.n <= 0 THEN Rat(0, 1)
                   ELSE RMul(RDiv(econOut.value.net_profit, econOut.value.total_costs),
                             Rat(100, 1))
           /\ \A i \in 1..Len(econOut.value.divided_by) : econOut.value.divided_by[i].n > 0

\* C10 happens: a result for a negative tender amount whose total costs are
\* negative too, so that both guards decided.
RatiosOfNegativeAmounts ==
    /\ econPc = "done"
    /\ econOut.kind = "return"
    /\ tenderAmount[1].n < 0
    /\ econOut.value.total_costs.n < 0
    /\ econOut.value.net_profit.n # 0
    /\ econOut.value.divided_by = <<>>

\* C11 as stated: in every result the payback period is absent when the net
\* profit or the monthly profit is not positive, equals config.total_amount /
\* (net profit / duration_months) otherwise, and is present exactly when the
\* net profit is positive.
PaybackPresentIffNetProfitPositive ==
    (econPc = "done" /\ econOut.kind = "return")
        => /\ econOut.value.payback_period_months # <<>>
                 => econOut.value.payback_period_months[1]
                        = RDiv(config[1].total_amount,
                               RDiv(econOut.value.net_profit,
                                    Rat(config[1].duration_months, 1)))
           /\ econOut.value.payback_period_months # <<>> <=> econOut.value.net_profit.n > 0

\* C11, amended: the payback period is present exactly when the net profit
\* and duration_months are both positive, and then equals config.total_amount
\* / (net profit / duration_months); it is absent when the net profit is not
\* positive or duration_months is negative; the only calls without a result
\* are those with duration_months = 0.
PaybackPresentIffProfitAndDurationPositive ==
    econPc = "done"
        => /\ econOut.kind = "raise" => config[1].duration_months = 0
           /\ econOut.kind = "return"
                 => /\ econOut.value.payback_period_months # <<>>
                          <=> (econOut.value.net_profit.n > 0
                                  /\ config[1].duration_months > 0)
                    /\ econOut.value.payback_period_months # <<>>
                          => econOut.value.payback_period_months[1]
                                 = RDiv(config[1].total_amount,
                                        RDiv(econOut.value.net_profit,
                                             Rat(config[1].duration_months, 1)))

\* C11 happens: a payback period of a project of 13 months was calculated
\* from a positive amount.
PaybackCalculated ==
    /\ econPc = "done"
    /\ econOut.kind = "return"
    /\ config[1].duration_months = 13
    /\ config[1].total_amount.n > 0
    /\ econOut.value.payback_period_months # <<>>

\* a >= b of two floats
FloatAtLeast(a, b) == ~FloatGreater(b, a)

\* The levels, from the lowest to the highest.
LevelRank(level) ==
    CASE level = "low" -> 0
      [] level = "medium" -> 1
      [] level = "high" -> 2
      [] level = "critical" -> 3

\* C12: in every result the risk score lies in [0, 1] and the level is the
\* one of the score's thresholds: critical from 0.7, high from 0.5, medium
\* from 0.3, low below, so that a higher score never has a lower level.
RiskScoreClampedAndLevelMonotonic ==
    (econPc = "done" /\ econOut.kind = "return")
        => /\ FloatAtLeast(econOut.value.risk_score, FloatOfHundredths(0))
           /\ FloatAtLeast(FloatOfHundredths(100), econOut.value.risk_score)
           /\ LevelRank(econOut.value.risk_level)
                 = IF FloatAtLeast(econOut.value.risk_score, FloatOfHundredths(70)) THEN 3
                   ELSE IF FloatAtLeast(econOut.value.risk_score, FloatOfHundredths(50)) THEN 2
                   ELSE IF FloatAtLeast(econOut.value.risk_score, FloatOfHundredths(30)) THEN 1
                   ELSE 0

\* C12 happens: a restoration project of 13 months with a low margin and a
\* small team, whose increments add up to more than 1.
RiskScoreClamped ==
    /\ econPc = "done"
    /\ econOut.kind = "return"
    /\ config[1].project_type = "restoration"
    /\ config[1].duration_months = 13
    /\ Len(econOut.value.risk_factors) = 3
    /\ econOut.value.risk_score = FloatOfHundredths(100)

\* The increments of the score that the rules bring for a configuration and
\* a margin, in hundredths: duration, margin, team size.
DurationIncrement(duration_months) ==
    IF duration_months > 12 THEN 20 ELSE IF duration_months > 6 THEN 10 ELSE 0

MarginIncrement(profit_margin) ==
    IF RLess(profit_margin, Rat(10, 1)) THEN 30
    ELSE IF RLess(profit_margin, Rat(15, 1)) THEN 10 ELSE 0

TeamSizeIncrement(size) == IF size > 8 THEN 10 ELSE IF size < 3 THEN 20 ELSE 0

\* The elements of a sequence.
Range(seq) == {seq[i] : i \in DOMAIN seq}

\* The increments that are not zero, in order.
NonZero(incs) == SelectSeq(incs, LAMBDA inc : inc # 0)

\* The rule a factor description belongs to.
RuleOfFactor(name) ==
    CASE name \in {"Long project (> 12 months)", "Medium project (6-12 months)"} -> "duration"
      [] name \in {"Low profit margin (< 10%)", "Medium profit margin (10-15%)"} -> "margin"
      [] name \in {"Large team (> 8 people)", "Small team (< 3 people)"} -> "team"
      [] OTHER -> "base"

\* C13: the score is the base risk of the project type (0.5 for an unlisted
\* one) plus one increment each for duration, margin and team size, limited
\* to 1.0, and the factors are one description per increment that is not
\* zero, in the order duration, margin, team size.
RiskScoreIsBasePlusIncrements ==
    (econPc = "done" /\ econOut.kind = "return")
        => LET incs == <<DurationIncrement(config[1].duration_months),
                         MarginIncrement(econOut.value.profit_margin),
                         TeamSizeIncrement(Len(config[1].team))>>
               base == IF config[1].project_type = "other" THEN 50
                       ELSE BaseRisk(config[1].project_type)
               unclamped == FloatSum(<<base>> \o NonZero(incs))
           IN  /\ econOut.value.risk_score
                     = IF FloatGreater(unclamped, FloatOfHundredths(100))
                       THEN FloatOfHundredths(100) ELSE unclamped
               /\ [i \in 1..Len(econOut.value.risk_factors) |->
                      RuleOfFactor(econOut.value.risk_factors[i])]
                     = SelectSeq(<<"duration", "margin", "team">>,
                                 LAMBDA rule : \/ rule = "duration" /\ incs[1] # 0
                                               \/ rule = "margin" /\ incs[2] # 0
                                               \/ rule = "team" /\ incs[3] # 0)
               /\ incs[1] = 20 <=> "Long project (> 12 months)" \in Range(econOut.value.risk_factors)
               /\ incs[2] = 30 <=> "Low profit margin (< 10%)" \in Range(econOut.value.risk_factors)
               /\ incs[3] = 10 <=> "Large team (> 8 people)" \in Range(econOut.value.risk_factors)

\* C13 happens: a project of an unlisted type, of 9 months, with a low
\* margin and a team of fewer than 3.
RiskOfUnlistedType ==
    /\ econPc = "done"
    /\ econOut.kind = "return"
    /\ config[1].project_type = "other"
    /\ config[1].duration_months = 9
    /\ Len(config[1].team) < 3
    /\ econOut.value.risk_factors
          = <<"Medium project (6-12 months)", "Low profit margin (< 10%)",
              "Small team (< 3 people)">>

\* The relative difference of a margin from the market average, in percent.
RelativeDifference(margin, market_avg) ==
    IF market_avg <= 0 THEN Rat(0, 1)
    ELSE RMul(RDiv(RSub(margin, Rat(market_avg, 1)), Rat(market_avg, 1)), Rat(100, 1))

\* The tier of a relative difference, each boundary in the upper tier.
TierOf(d) ==
    IF ~RLess(d, Rat(20, 1)) THEN "Far above the market"
    ELSE IF ~RLess(d, Rat(10, 1)) THEN "Above the market"
    ELSE IF ~RLess(d, Rat(-10, 1)) THEN "At the market level"
    ELSE IF ~RLess(d, Rat(-20, 1)) THEN "Below the market"
    ELSE "Far below the market"

\* C14: in every result the market position is the tier of the relative
\* difference d = (margin - market average) / market average * 100, the
\* boundaries +20, +10, -10 and -20 falling in the upper tier, and the
\* averages are those of the project type's row (12 and 20 for an unlisted
\* type).
MarketPositionIsTierOfDifference ==
    (econPc = "done" /\ econOut.kind = "return")
        => /\ econOut.value.market_comparison.market_position
                 = TierOf(RelativeDifference(
                              econOut.value.profit_margin,
                              econOut.value.market_comparison.market_avg_profit_margin))
           /\ econOut.value.market_comparison.market_avg_profit_margin
                 = MarketAverages(config[1].project_type).profit_margin
           /\ config[1].project_type = "other"
                 => /\ econOut.value.market_comparison.market_avg_profit_margin = 12
                    /\ econOut.value.market_comparison.market_avg_roi = 20

\* C15: _parse_real_price keeps digits and separators, reads a comma as the
\* decimal point and returns the largest number found in what is left (0
\* when there is none), divided by 100 when it is greater than
\* 1,000,000,000; "1 234 567,89 R" gives 1234567.89; the result is a number
\* that is never negative.
PriceIsLargestNumberFound ==
    (textCall # <<>> /\ textCall[1].fn = "_parse_real_price")
        => LET numbers == FindNumbers(CleanPriceText(textCall[1].arg), 1)
           IN  /\ DOMAIN textOut = {"int", "frac"}
               /\ textOut.int >= 0
               /\ numbers = <<>> => textOut = Num(0, "")
               /\ numbers # <<>>
                     => \E i \in 1..Len(numbers) :
                           /\ \A j \in 1..Len(numbers) : ~NumGreater(numbers[j], numbers[i])
                           /\ IF NumGreater(numbers[i], Num(1000000000, ""))
                              THEN /\ textOut.int = numbers[i].int \div 100
                                   /\ textOut.int < numbers[i].int
                              ELSE textOut = numbers[i]
               /\ textCall[1].arg = "1 234 567,89 R" => textOut = Num(1234567, "89")

\* C15 happens: a text with two numbers, the larger one above the limit.
PriceAboveLimitParsed ==
    /\ textCall = <<[fn |-> "_parse_real_price", arg |-> "12\t2000000000,89 R"]>>
    /\ textOut = Num(20000000, "0089")

\* 1 March 2025 (at 23:59 where the time is given) written in the six
\* formats of _parse_real_date, and the datetime each denotes.
SixFormats ==
    [text \in {"01.03.2025 23:59", "01.03.2025", "01/03/2025 23:59", "01/03/2025",
               "2025-03-01 23:59", "2025-03-01"} |->
        [year |-> 2025, month |-> 3, day |-> 1,
         hour |-> IF Len(text) > 10 THEN 23 ELSE 0,
         minute |-> IF Len(text) > 10 THEN 59 ELSE 0]]

\* C16: a text in any of the six formats of _parse_real_date is parsed to the
\* date it denotes, so that "01.03.2025 23:59" and "2025-03-01" give the same
\* calendar date.
SixDateFormatsAccepted ==
    (textCall # <<>> /\ textCall[1].fn = "_parse_real_date"
        /\ textCall[1].arg \in DOMAIN SixFormats)
        => textOut = <<SixFormats[textCall[1].arg]>>


\* The cache holds, at time t, an entry for the key that has not expired.
HasUnexpiredEntry(c, key, t) == c[key] # <<>> /\ t < c[key][1].expiry

\* C17: search_tenders with use_cache and an unexpired entry for the key of
\* the criteria returns the cached value and does not open the parser; on a
\* miss it opens the parser, and when the call ends the cache is written if
\* and only if the call used the cache and returns a list that is not empty;
\* without use_cache the call leaves the cache as it is; and no entry of the
\* cache ever holds an empty list.
CacheServesHitsAndStoresNonEmptyResults ==
    [][/\ (svcPc = "idle" /\ svcPc' # "idle")
             => IF svcArgs'.use_cache /\ HasUnexpiredEntry(cache, GetCacheKey(svcArgs'), now)
                THEN /\ svcPc' = "done"
                     /\ svcOut' = Return(cache[GetCacheKey(svcArgs')][1].value)
                     /\ session' = session
                     /\ cache' = cache
                ELSE /\ svcPc' = "warmup"
                     /\ session' = "open"
       /\ (svcPc \notin {"idle", "done"} /\ svcPc' = "done")
             => cache' = IF svcArgs.use_cache /\ svcOut'.kind = "return" /\ svcOut'.value # <<>>
                         THEN [cache EXCEPT ![GetCacheKey(svcArgs)] =
                                  <<[value |-> svcOut'.value, expiry |-> now + SearchResultsTtl]>>]
                         ELSE cache
       /\ (svcPc # "idle" /\ svcPc' # "done") => cache' = cache
       /\ (svcPc' # "idle" /\ ~svcArgs'.use_cache) => cache' = cache
       /\ \A k \in DOMAIN cache' : cache'[k] # <<>> => cache'[k][1].value # <<>>
      ]_vars

\* C17 happens: a call with use_cache ended with the records of the cache
\* and the parser was never opened.
SearchServedFromCache ==
    /\ svcPc = "done"
    /\ svcArgs.use_cache
    /\ session = "none"
    /\ searchGets = 0
    /\ svcOut.kind = "return"
    /\ svcOut.value # <<>>

\* The attempts so far that ended with an exception.
FailedAttempts == {i \in 1..Len(retryOutcomes) : retryOutcomes[i].kind = "raise"}

\* C18: when search_with_auto_retry has made max_attempts attempts and none
\* gave records, it returns an empty list only if every attempt gave an
\* empty list; if an attempt failed, the caller gets the wrapped exception
\* of the last failure.
ExhaustedRetryNeverHidesAnError ==
    (/\ retryPc = "done"
     /\ Len(retryOutcomes) = retryArgs.max_attempts
     /\ \A i \in 1..Len(retryOutcomes) :
           retryOutcomes[i].kind = "return" => retryOutcomes[i].value = <<>>)
        => IF FailedAttempts = {}
           THEN retryOut = Return(<<>>)
           ELSE retryOut = Raise(WrapRetryError(
                               retryArgs.max_attempts,
                               retryOutcomes[CHOOSE i \in FailedAttempts :
                                                \A j \in FailedAttempts : j <= i].value))

\* The repository holds a record for the number whose age at time t is
\* below the 30 minutes of the freshness window.
HasFreshRecord(repo, reg_number, t) ==
    /\ repo[reg_number] # <<>>
    /\ t - repo[reg_number][1].updated_at < 30 * 60

\* C19: get_tender_details returns the stored record without opening the
\* parser exactly when no refresh is forced and the record is younger than
\* 30 minutes, and otherwise fetches; a fetch that gave data saves the new
\* record under the number asked for with the time of the save, returns it,
\* and leaves a repository from which the number is served when asked for
\* again at once.
FreshRecordServedElseFetchedAndSaved ==
    [][/\ (detPc = "idle" /\ detPc' # "idle")
             => IF /\ ~detArgs'.force_refresh
                   /\ HasFreshRecord(repository, detArgs'.reg_number, now)
                THEN /\ detPc' = "done"
                     /\ detOut' = Return(repository[detArgs'.reg_number])
                     /\ session' = session
                     /\ detRequests' = <<>>
                ELSE /\ detPc' = "fetch"
                     /\ session' = "open"
       /\ (detPc = "fetched" /\ detPc' = "done" /\ detailsOut # <<>>)
             => /\ repository'[detArgs.reg_number] # <<>>
                /\ repository'[detArgs.reg_number][1].reg_number = detArgs.reg_number
                /\ repository'[detArgs.reg_number][1].updated_at = now
                /\ detOut' = Return(repository'[detArgs.reg_number])
                /\ \A other \in RegNumbers \ {detArgs.reg_number} :
                      repository'[other] = repository[other]
                /\ HasFreshRecord(repository', detArgs.reg_number, now')
       /\ (detPc = "done" /\ detPc' = "idle") => (repository' = repository /\ now' = now)
      ]_vars

\* C19 happens: a record that a fetch had saved was returned to a call
\* that forced no refresh, and no request was made.
RecordServedFromRepository ==
    /\ detPc = "done"
    /\ ~detArgs.force_refresh
    /\ session = "none"
    /\ detRequests = <<>>
    /\ detOut = Return(repository[detArgs.reg_number])
    /\ detOut.value # <<>>
    /\ detOut.value[1].title = "Postavka bumagi"

\* The response has status 200 and its body holds the number and the phrase
\* of a detail page.
Qualifies(resp, reg_number) ==
    /\ resp.error = None
    /\ resp.status = 200
    /\ Contains(resp.page.text, reg_number)
    /\ Contains(Lower(resp.page.text), "obshchie svedeniya")

\* C20: parse_tender_details requests the URL templates in their order on
\* the open session; no request follows a response that qualifies; when the
\* function has returned, the result is the data of the last response, for
\* the number asked for, if that response qualifies, and is absent
\* otherwise, in which case all four templates were requested or the last
\* request failed.
DetailsFromFirstQualifyingTemplate ==
    /\ Len(detRequests) <= 4
    /\ Len(detResponses) = Len(detRequests)
    /\ \A i \in 1..Len(detRequests) :
          /\ detRequests[i].url = DetailUrlTemplates[i]
          /\ detRequests[i].session = "open"
    /\ \A i \in 1..(Len(detResponses) - 1) :
          ~Qualifies(detResponses[i], detArgs.reg_number)
    /\ detPc = "fetch" => (detailsOut = <<>> /\ Len(detRequests) < 4)
    /\ detPc \in {"fetched", "done"} /\ detRequests # <<>>
          => IF Qualifies(detResponses[Len(detResponses)], detArgs.reg_number)
             THEN /\ detailsOut # <<>>
                  /\ detailsOut[1].reg_number = detArgs.reg_number
                  /\ detailsOut[1]
                        = ParseRealTenderDetails(detResponses[Len(detResponses)].page,
                                                 detArgs.reg_number)
             ELSE /\ detailsOut = <<>>
                  /\ \/ Len(detRequests) = 4
                     \/ detResponses[Len(detResponses)].error # None

\* C20 happens: the third template was accepted after two responses that
\* did not qualify, one of them naming the number without the phrase.
ThirdTemplateAccepted ==
    /\ detPc = "fetched"
    /\ Len(detRequests) = 3
    /\ detailsOut # <<>>
    /\ detailsOut[1].title = "Postavka bumagi"
    /\ \E i \in 1..2 : detResponses[i].status = 200
                       /\ Contains(detResponses[i].page.text, detArgs.reg_number)

\* A request of the running fetch was answered by an exception of the
\* transport.
TransientDetailError ==
    \E i \in 1..Len(detResponses) : detResponses[i].error # None

\* C21: a fetch of parse_tender_details that met a timeout or a connection
\* error gives up only after the three attempts of its retry budget, which
\* is below the five of the search.
TransientDetailErrorIsRetried ==
    /\ DetailStopAfterAttempt < SearchStopAfterAttempt
    /\ (detPc \in {"fetched", "done"} /\ TransientDetailError)
          => detAttempt = DetailStopAfterAttempt

\* The set in force for the key has not reached its expiry time at time t.
SetInForceAt(key, t) ==
    lastSet[key] # <<>> /\ t < lastSet[key][1].at + lastSet[key][1].ttl

\* What holds of the cache after an operation on it.
CacheAnswersByTheSetInForce ==
    /\ \A key \in DOMAIN cache :
          cache[key] # <<>>
              => /\ lastSet[key] # <<>>
                 /\ cache[key][1] = [value |-> lastSet[key][1].value,
                                     expiry |-> lastSet[key][1].at + lastSet[key][1].ttl]
    /\ (cacheCall # <<>> /\ cacheCall[1].op = "get")
          => IF SetInForceAt(cacheCall[1].key, cacheCall[1].at)
             THEN /\ cacheOut = <<lastSet[cacheCall[1].key][1].value>>
                  /\ cache[cacheCall[1].key] # <<>>
             ELSE /\ cacheOut = <<>>
                  /\ cache[cacheCall[1].key] = <<>>
    /\ (cacheCall # <<>> /\ cacheCall[1].op = "set")
          => /\ cache[cacheCall[1].key] # <<>>
             /\ cache[cacheCall[1].key][1].expiry
                   = cacheCall[1].at + lastSet[cacheCall[1].key][1].ttl
    /\ (cacheCall # <<>> /\ cacheCall[1].op = "delete") => cache[cacheCall[1].key] = <<>>
    /\ (cacheCall # <<>> /\ cacheCall[1].op = "clear")
          => \A key \in DOMAIN cache : cache[key] = <<>>

\* C22: SimpleCache.get returns the value of the latest set of the key while
\* now < set-time + ttl and None from then on, and removes the expired entry
\* it finds; a set replaces value and expiry; delete and clear leave the
\* keys absent; and the passing of time alone removes nothing.
CacheExpiresLazilyOnGet ==
    [][/\ CacheAnswersByTheSetInForce'
       /\ (now' # now) => (cache' = cache)
      ]_vars

\* C22 happens: a get made at the very expiry time of an entry returned
\* None and removed the entry.
ExpiredEntryRemovedByGet ==
    /\ cacheCall # <<>>
    /\ cacheCall[1].op = "get"
    /\ lastSet[cacheCall[1].key] # <<>>
    /\ lastSet[cacheCall[1].key][1].ttl > 0
    /\ cacheCall[1].at = lastSet[cacheCall[1].key][1].at + lastSet[cacheCall[1].key][1].ttl
    /\ cacheOut = <<>>
    /\ cache[cacheCall[1].key] = <<>>

\* The filter pairs of a criteria, as a set.
FilterPairs(criteria) == {criteria.filters[i] : i \in 1..Len(criteria.filters)}

\* C23: two criteria with the same query, up to the blanks around it, the
\* same limit and the same set of filter pairs get the same key, whatever
\* the order of the filters; and criteria that differ in the limit or in a
\* filter pair are hashed from different key strings.
KeyDecidedByNormalizedQueryLimitAndFilters ==
    keyCall # <<>>
        => /\ (/\ Strip(keyCall[1].a.query) = Strip(keyCall[1].b.query)
               /\ keyCall[1].a.limit = keyCall[1].b.limit
               /\ FilterPairs(keyCall[1].a) = FilterPairs(keyCall[1].b))
                  => keyOut[1].a.key = keyOut[1].b.key
           /\ (\/ keyCall[1].a.limit # keyCall[1].b.limit
               \/ FilterPairs(keyCall[1].a) # FilterPairs(keyCall[1].b))
                  => keyOut[1].a.data # keyOut[1].b.data

\* The raw record is a dict with a registration number that is not empty.
HasNumber(raw) == "reg_number" \in DOMAIN raw /\ raw.reg_number # ""

\* The numbers of the raw records that have one, in the order of the list.
RECURSIVE NumbersOf(_)
NumbersOf(raw_results) ==
    IF raw_results = <<>> THEN <<>>
    ELSE (IF HasNumber(Head(raw_results)) THEN <<Head(raw_results).reg_number>> ELSE <<>>)
         \o NumbersOf(Tail(raw_results))

\* C24: every record that search_tenders returns has a registration number
\* that is not empty, whatever the injected parser returned; the raw records
\* without number are skipped, and those after them are still converted.
ReturnedRecordsHaveNumbers ==
    (svcPc = "done" /\ svcOut.kind = "return" /\ session = "closed")
        => /\ \A i \in 1..Len(svcOut.value) : svcOut.value[i].reg_number # ""
           /\ [i \in 1..Len(svcOut.value) |-> svcOut.value[i].reg_number]
                 = NumbersOf(results)

\* The attempt gave records.
GaveRecords(outcome) == outcome.kind = "return" /\ outcome.value # <<>>

\* C26: search_with_auto_retry(criteria, n) calls search_tenders at most n
\* times; only the last attempt made can have given records, and the call
\* then returns them; after attempt k that is followed by another, it has
\* slept 2k seconds if attempt k gave an empty list and 3k seconds if it
\* raised; and nothing is slept after the last attempt.
AttemptsAndDelaysFollowTheSchedule ==
    retryPc # "idle"
        => /\ Len(retryOutcomes) + (IF svcPc # "idle" THEN 1 ELSE 0) <= retryArgs.max_attempts
           /\ \A k \in 1..(Len(retryOutcomes) - 1) : ~GaveRecords(retryOutcomes[k])
           /\ (retryOutcomes # <<>> /\ GaveRecords(retryOutcomes[Len(retryOutcomes)]))
                 => (retryPc = "done" /\ retryOut = retryOutcomes[Len(retryOutcomes)])
           /\ Len(retrySlept) = IF retryPc = "done" /\ retryOutcomes # <<>>
                                THEN Len(retryOutcomes) - 1
                                ELSE Len(retryOutcomes)
           /\ \A k \in 1..Len(retrySlept) :
                 retrySlept[k] = IF retryOutcomes[k].kind = "return" THEN 2 * k ELSE 3 * k
           /\ retryArgs.max_attempts > 0 => Len(retrySlept) < retryArgs.max_attempts

\* C26 happens: three attempts, the first failed and the second gave an
\* empty list, with 3 and then 4 seconds slept, and the third gave records.
RecordsAtThirdAttempt ==
    /\ retryPc = "done"
    /\ retryArgs.max_attempts = 3
    /\ Len(retryOutcomes) = 3
    /\ retrySlept = <<3, 4>>
    /\ GaveRecords(retryOutcomes[3])

\* The search GETs and the warm-up GETs of the call so far.
RECURSIVE SumOfGets(_, _)
SumOfGets(gets, kind) ==
    IF gets = <<>> THEN 0 ELSE Head(gets)[kind] + SumOfGets(Tail(gets), kind)

SearchGetsOfCall == SumOfGets(retryGets, "search") + searchGets

HomeGetsOfCall == SumOfGets(retryGets, "home") + homeGets

\* C29: a call of search_with_auto_retry(criteria, n) issues at most 5 n
\* search GETs, each of them after a warm-up GET of its own, and, the portal
\* answering every request in the end, the call reaches its end, where it
\* has returned a list or raised.
RetryCallTerminatesWithinItsBudget ==
    /\ [](retryPc # "idle"
            => /\ SearchGetsOfCall <= 5 * retryArgs.max_attempts
               /\ searchGets <= 5
               /\ HomeGetsOfCall = SearchGetsOfCall + (IF svcPc = "get" THEN 1 ELSE 0)
               /\ retryPc = "done" => retryOut.kind \in {"return", "raise"})
    /\ (retryPc = "attempt") ~> (retryPc = "done")

\* C29 happens: a call with n = 2 ended with an exception after 10 search
\* GETs and 10 warm-up GETs.
BudgetOfTwoAttemptsUsedUp ==
    /\ retryPc = "done"
    /\ retryArgs.max_attempts = 2
    /\ SumOfGets(retryGets, "search") = 10
    /\ SumOfGets(retryGets, "home") = 10
    /\ retryOut.kind = "raise"

\* The record is the card's record with the fields of a detail page over it.
EnrichedFrom(record, basic) ==
    \E detail \in DetailOutcomes(basic.reg_number) \ {<<>>} :
        /\ DOMAIN record = DOMAIN basic \cup DOMAIN detail[1]
        /\ \A f \in DOMAIN detail[1] : record[f] = detail[1][f]
        /\ \A f \in DOMAIN basic \ DOMAIN detail[1] : record[f] = basic[f]

\* C28: the records that HttpTenderParser.search_tenders builds are at most
\* limit, one for each of the first limit records parsed of the page and in
\* their order; each has the number of its card and is either the card's
\* record unchanged or that record with the detail fields over it.
EnrichmentKeepsRecordsAndOrder ==
    svcPc \in {"enrich", "done"} /\ results # <<>>
        => /\ Len(results) <= svcArgs.limit
           /\ \E pg \in SearchPages :
                 LET parsed == ParsedSearchPage[pg, cwdWritable].out.value
                 IN  /\ Len(results) = Min(svcArgs.limit, Len(parsed))
                     /\ results = SubSeq(parsed, 1, Len(results))
           /\ Len(enhanced) <= Len(results)
           /\ svcPc = "done" => Len(enhanced) = Len(results)
           /\ \A i \in 1..Len(enhanced) :
                 /\ enhanced[i].reg_number = results[i].reg_number
                 /\ enhanced[i] = results[i] \/ EnrichedFrom(enhanced[i], results[i])

\* C28 happens: of two records returned, the first carries the price and
\* the description of its detail page and the second is its card's record.
OneOfTwoRecordsEnriched ==
    /\ svcPc = "done"
    /\ Len(enhanced) = 2
    /\ "description" \in DOMAIN enhanced[1]
    /\ enhanced[1].initial_price # results[1].initial_price
    /\ enhanced[2] = results[2]

\* C30: when get_tender_details fetches and the fetch gives nothing, the
\* call returns absent, and when the parser raises, the call raises the
\* wrapped exception; in both cases, and all the while the fetch runs, the
\* repository stays as it was, the stale record included.
FailedFetchLeavesRepositoryUnchanged ==
    [][/\ (detPc = "fetch") => (repository' = repository)
       /\ (detPc = "fetched" /\ detPc' = "done" /\ detailsOut = <<>>)
             => (repository' = repository /\ detOut' = Return(<<>>))
       /\ (detPc = "fetch" /\ detPc' = "done")
             => /\ repository' = repository
                /\ detOut'.kind = "raise"
                /\ \E e \in ParserErrors :
                      detOut'.value.msg
                          = "Failed to get the tender details from zakupki.gov.ru: " \o e.msg
      ]_vars

\* C30 happens: a call that forced nothing found a stale record, fetched,
\* got nothing and returned absent, and the stale record is still stored.
StaleRecordKeptAfterEmptyFetch ==
    /\ detPc = "done"
    /\ ~detArgs.force_refresh
    /\ detRequests # <<>>
    /\ detailsOut = <<>>
    /\ detOut = Return(<<>>)
    /\ repository[detArgs.reg_number] # <<>>
    /\ now - repository[detArgs.reg_number][1].updated_at >= TenderFreshWindow

\* The price that the parser extracted for the number, among the raw
\* records shown.
ExtractedPrice(reg_number) ==
    LET raw == rawShown[CHOOSE i \in 1..Len(rawShown) : rawShown[i].reg_number = reg_number]
    IN  DecimalOfStr(StrOfPrice(<<raw.initial_price>>))

\* C27: for a tender selected among the results of a real search, the
\* amount passed to calculate_project_economics and the one stored as
\* config.total_amount are the initial price the parser extracted for it.
PriceReachesEconomics ==
    (/\ econInput # <<>>
     /\ \E i \in 1..Len(rawShown) : rawShown[i].reg_number = econInput[1].reg_number)
        => /\ econInput[1].tender_amount = ExtractedPrice(econInput[1].reg_number)
           /\ econInput[1].total_amount = ExtractedPrice(econInput[1].reg_number)

\* The latest GET went out on the session its call opened, and that
\* session was open.
RequestOnOwnOpenSession ==
    lastRequest # <<>> =>
        /\ lastRequest[1].session = calls[lastRequest[1].caller].session
        /\ lastRequest[1].state = "open"

\* Every call that has returned or raised left the session it opened closed.
SessionClosedAtReturn ==
    \A c \in Callers :
        calls[c].pc = "returned" => sessions[calls[c].session].state = "closed"

\* C25: when the calls on one SearchService are serialized, every GET of a
\* call goes out on the session that the call opened, while it is open, and
\* that session is closed once the call has returned or raised.  (That
\* interleaved calls are not safe is the reachability of
\* InterleavedCallsShareASession.)
SerializedCallsOwnTheirSession ==
    serialized => (RequestOnOwnOpenSession /\ SessionClosedAtReturn)

\* Two interleaved calls: the latest GET of one went out on a session that
\* the other call's exit had closed, and the other call has returned with
\* the session it opened still open and out of the parser's reach.
InterleavedCallsShareASession ==
    /\ ~serialized
    /\ lastRequest # <<>>
    /\ lastRequest[1].state = "closed"
    /\ sessions[lastRequest[1].session].closed_by # lastRequest[1].caller
    /\ InProgress(lastRequest[1].caller)
    /\ \E c \in Callers :
        /\ calls[c].pc = "returned"
        /\ sessions[calls[c].session].state = "open"
        /\ parserSession # calls[c].session
====
